---- MODULE Spec2Model ----
(***************************************************************************)
(* Model of the neffect pixel-effect engine: the WASM loader, the          *)
(* fast-path / managed-path selector of BaseWasmProcessor.process, the     *)
(* batch orchestrator, and the effect algorithms on RGBA pixel buffers.    *)
(***************************************************************************)
EXTENDS Integers, Sequences, FiniteSets, TLC

VARIABLES
  wasmInitialized,   \* base-processor: let wasmInitialized
  wasmInitPromise,   \* base-processor: let wasmInitPromise ("null", "pending", "true", "false")
  wasmInstance,      \* loader: wasmInstance !== null
  wasmMemory,        \* loader: pages of the WebAssembly.Memory, 0 when wasmMemory is null
  initPc,            \* position of the one initWasm() invocation
  initCalls,         \* number of times initWasm() has been invoked
  processor,         \* the processor instance of the page (getProcessor(effectId))
  calls,             \* the process() invocations, in the order they were started
  batch,             \* the processBatch() invocation
  fx,                \* one image taken through the effect algorithms
  page,              \* EffectPage: selectedPreset, settings, baseSettings and the handler last run
  linear,            \* the linear memory: the calls whose pixels and palette it holds
  run,               \* EffectPage: the handleProcess() invocation and the state it sets
  preview,           \* LivePreview: props, state and the processImage() runs of its effect
  handed             \* the parameters one process() has handed to its algorithm

vars == <<wasmInitialized, wasmInitPromise, wasmInstance, wasmMemory, initPc,
          initCalls, processor, calls, batch, fx, page, linear, run, preview, handed>>

loaderVars == <<wasmInitialized, wasmInitPromise, wasmInstance, wasmMemory, initPc, initCalls>>

\* ---------------------------------------------------------------------
\* Bounds of the model
\* ---------------------------------------------------------------------
MaxBatch == 3      \* items of a batch
MaxDirect == 2     \* process() calls made by callers other than processBatch
MaxSide == 2       \* width, height and inputResolution of the images taken through the effects
MaxWide == 3       \* width of the images taken through Pixelate and wasmPixelate
MaxTone == 3       \* width and height of the images taken through HalftoneProcessor
MaxSolid == 10     \* side of the single-colour images taken through the halftones

\* ---------------------------------------------------------------------
\* Arithmetic helpers
\* ---------------------------------------------------------------------
Max(a, b) == IF a >= b THEN a ELSE b
Min(a, b) == IF a <= b THEN a ELSE b

\* Math.round(n / d) for d > 0: the nearest integer, halves towards +infinity
Round(n, d) == (2 * n + d) \div (2 * d)

\* Math.ceil(n / d) for d > 0
Ceil(n, d) == -((-n) \div d)

\* `(settings[k] as number) || dflt`: a missing or zero value takes the fallback
NumOr(settings, k, dflt) ==
  IF k \in DOMAIN settings /\ settings[k] # 0 THEN settings[k] ELSE dflt

\* `(settings[k] as string) || dflt`
StrOr(settings, k, dflt) ==
  IF k \in DOMAIN settings /\ settings[k] # "" THEN settings[k] ELSE dflt

\* ---------------------------------------------------------------------
\* WASM loader (wasm/loader)
\* ---------------------------------------------------------------------
PAGE_BYTES == 65536
INITIAL_PAGES == 256
MAXIMUM_PAGES == 1024

isWasmAvailable == wasmInstance

\* a page count rounded down instead of up
pagesNeededTruncated(pages, requiredBytes) ==
  IF requiredBytes > pages * PAGE_BYTES
  THEN (requiredBytes - pages * PAGE_BYTES) \div PAGE_BYTES
  ELSE 0

\* ensureMemory(requiredBytes): the pages to grow by (0 when large enough)
pagesNeeded(pages, requiredBytes) ==
  IF requiredBytes > pages * PAGE_BYTES
  THEN Ceil(requiredBytes - pages * PAGE_BYTES, PAGE_BYTES)
  ELSE 0

\* WebAssembly.Memory.grow throws a RangeError past the declared maximum
growThrows(pages, delta) == pages + delta > MAXIMUM_PAGES

\* ensureMemory: [throws, pages]; a null wasmMemory returns at once
ensureMemory(pages, requiredBytes) ==
  IF pages = 0 THEN [throws |-> FALSE, pages |-> 0]
  ELSE LET d == pagesNeeded(pages, requiredBytes) IN
       IF d = 0 THEN [throws |-> FALSE, pages |-> pages]
       ELSE IF growThrows(pages, d) THEN [throws |-> TRUE, pages |-> pages]
       ELSE [throws |-> FALSE, pages |-> pages + d]

\* ---------------------------------------------------------------------
\* Image sizes through DitheringProcessor.prepareData
\* ---------------------------------------------------------------------
DEFAULT_GRAIN_SIZE == 2
DEFAULT_INPUT_RESOLUTION == 800

\* resizeImage(imageData, targetHeight): the size it returns
resizeImageSize(width, height, targetHeight) ==
  IF height = targetHeight THEN [width |-> width, height |-> height]
  ELSE [width |-> Max(1, Round(width * targetHeight, height)), height |-> targetHeight]

\* new Uint8ClampedArray(n) throws a RangeError for a negative length
allocThrows(width, height) == width * height * 4 < 0

\* prepareData: the sizes it works with
\*   original = after resizeImage, small = after the grain downscale
prepareSizes(width, height, settings) ==
  LET grainSize == Max(1, NumOr(settings, "grainSize", DEFAULT_GRAIN_SIZE))
      inputResolution == NumOr(settings, "inputResolution", DEFAULT_INPUT_RESOLUTION)
      resized == resizeImageSize(width, height, inputResolution)
  IN [throws |-> allocThrows(resized.width, resized.height),
      originalWidth |-> resized.width,
      originalHeight |-> resized.height,
      smallWidth |-> Max(1, Round(resized.width, grainSize)),
      smallHeight |-> Max(1, Round(resized.height, grainSize))]

\* ---------------------------------------------------------------------
\* Processors as seen by the selector: what a call needs of the shared
\* memory, whether it throws, and which image it answers with
\* ---------------------------------------------------------------------
Processors == {"dithering", "pixelate"}

PALETTE_ENTRIES == 2       \* every palette of PALETTES has two colours
WRAPPER_SLACK == 1024      \* the "+ 1024" of every wasm* wrapper

\* the image a path answers with: which path, from which input, of which size
Answer(by, proc, imageData, settings, width, height) ==
  [by |-> by, proc |-> proc, image |-> imageData, settings |-> settings,
   width |-> width, height |-> height]

NoAnswer == [by |-> "none"]

\* bytes the wasm* wrapper of the processor asks ensureMemory for
requiredBytes(proc, imageData, settings) ==
  IF proc = "dithering"
  THEN LET p == prepareSizes(imageData.width, imageData.height, settings)
       IN p.smallWidth * p.smallHeight * 4 + PALETTE_ENTRIES * 4 + WRAPPER_SLACK
  ELSE imageData.width * imageData.height * 4 + WRAPPER_SLACK

\* prepareData runs first on both paths of Dithering and throws on both
prepareThrows(proc, imageData, settings) ==
  proc = "dithering" /\ prepareSizes(imageData.width, imageData.height, settings).throws

\* size of the image a processor returns
outputSize(proc, imageData, settings) ==
  IF proc = "dithering"
  THEN LET p == prepareSizes(imageData.width, imageData.height, settings)
       IN [width |-> p.originalWidth, height |-> p.originalHeight]
  ELSE [width |-> imageData.width, height |-> imageData.height]

\* a fast path that has written into the caller's buffer before it throws
processWasmInPlace(proc, imageData, settings, pages, trap) ==
  LET mem == ensureMemory(pages, requiredBytes(proc, imageData, settings))
      size == outputSize(proc, imageData, settings)
      written == [imageData EXCEPT !.content = "written"]
  IN IF prepareThrows(proc, imageData, settings) \/ mem.throws \/ trap
     THEN [throws |-> TRUE, pages |-> pages, imageData |-> written, result |-> NoAnswer]
     ELSE [throws |-> FALSE, pages |-> mem.pages, imageData |-> imageData,
           result |-> Answer("processWasm", proc, imageData, settings, size.width, size.height)]

\* processWasm(imageData, settings) with the memory at `pages`; `trap` is the
\* compiled kernel aborting.  The caller's buffer is copied, never written.
processWasm(proc, imageData, settings, pages, trap) ==
  LET mem == ensureMemory(pages, requiredBytes(proc, imageData, settings))
      size == outputSize(proc, imageData, settings)
  IN IF prepareThrows(proc, imageData, settings)
     THEN [throws |-> TRUE, pages |-> pages, imageData |-> imageData, result |-> NoAnswer]
     ELSE IF mem.throws
     THEN [throws |-> TRUE, pages |-> mem.pages, imageData |-> imageData, result |-> NoAnswer]
     ELSE IF trap
     THEN [throws |-> TRUE, pages |-> mem.pages, imageData |-> imageData, result |-> NoAnswer]
     ELSE [throws |-> FALSE, pages |-> mem.pages, imageData |-> imageData,
           result |-> Answer("processWasm", proc, imageData, settings, size.width, size.height)]

\* processJs(imageData, settings): rejects when prepareData throws, or when
\* one of its `new Uint8ClampedArray(...)` cannot be allocated (`oom`)
processJs(proc, imageData, settings, oom) ==
  LET size == outputSize(proc, imageData, settings)
  IN IF prepareThrows(proc, imageData, settings) \/ oom
     THEN [rejects |-> TRUE, result |-> NoAnswer]
     ELSE [rejects |-> FALSE,
           result |-> Answer("processJs", proc, imageData, settings, size.width, size.height)]

\* ---------------------------------------------------------------------
\* Pixel buffers (ImageData): width, height and the RGBA bytes, data[1] being
\* the byte at offset 0
\* ---------------------------------------------------------------------
ImageData(data, width, height) == [width |-> width, height |-> height, data |-> data]

\* offset of pixel (x, y) in a buffer `width` pixels wide: (y * width + x) * 4
Idx(width, x, y) == (y * width + x) * 4

\* the RGBA tuple at byte offset idx
PixelAt(data, idx) == <<data[idx + 1], data[idx + 2], data[idx + 3], data[idx + 4]>>

\* the buffer whose pixel (x, y) is pixelOf(x, y), filled as the nested
\* y / x loops of the code fill a new Uint8ClampedArray(length)
Filled(length, width, pixelOf(_, _)) ==
  [i \in 1..length |->
     LET p == (i - 1) \div 4
     IN pixelOf(p % width, p \div width)[((i - 1) % 4) + 1]]

\* the buffer in which every pixel of data is replaced by pixelOf(idx)
Mapped(data, pixelOf(_)) ==
  [i \in 1..Len(data) |-> pixelOf(((i - 1) \div 4) * 4)[((i - 1) % 4) + 1]]

clamp(value, lo, hi) == Min(hi, Max(lo, value))

\* <i32>(n / d) for d > 0: truncation towards zero
Trunc(n, d) == IF n >= 0 THEN n \div d ELSE -((-n) \div d)

\* ---------------------------------------------------------------------
\* DitheringProcessor: resizes and prepareData
\* ---------------------------------------------------------------------
\* a resize that relabels the buffer it was given with the new size
resizeImageNearestStale(imageData, newWidth, newHeight) ==
  ImageData(imageData.data, newWidth, newHeight)

resizeImageNearest(imageData, newWidth, newHeight) ==
  LET width == imageData.width
      height == imageData.height
      data == imageData.data
      src(x, y) == PixelAt(data, Idx(width, (x * width) \div newWidth, (y * height) \div newHeight))
  IN ImageData(Filled(newWidth * newHeight * 4, newWidth, src), newWidth, newHeight)

resizeImageBilinear(imageData, newWidth, newHeight) ==
  LET width == imageData.width
      height == imageData.height
      data == imageData.data
      src(x, y) ==
        LET x0 == (x * width) \div newWidth
            y0 == (y * height) \div newHeight
            x1 == Min(x0 + 1, width - 1)
            y1 == Min(y0 + 1, height - 1)
            \* xLerp = xl / newWidth, yLerp = yl / newHeight
            xl == (x * width) % newWidth
            yl == (y * height) % newHeight
            p00 == PixelAt(data, Idx(width, x0, y0))
            p10 == PixelAt(data, Idx(width, x1, y0))
            p01 == PixelAt(data, Idx(width, x0, y1))
            p11 == PixelAt(data, Idx(width, x1, y1))
        IN [c \in 1..4 |->
              Round((p00[c] * (newWidth - xl) + p10[c] * xl) * (newHeight - yl)
                      + (p01[c] * (newWidth - xl) + p11[c] * xl) * yl,
                    newWidth * newHeight)]
  IN ImageData(Filled(newWidth * newHeight * 4, newWidth, src), newWidth, newHeight)

resizeImage(imageData, targetHeight) ==
  IF imageData.height = targetHeight THEN imageData
  ELSE resizeImageBilinear(imageData,
         resizeImageSize(imageData.width, imageData.height, targetHeight).width, targetHeight)

PALETTES ==
  [p \in {"BLUE-ON-TRANSPARENT", "WHITE-ON-TRANSPARENT"} |->
     IF p = "BLUE-ON-TRANSPARENT"
     THEN << <<0, 0, 0, 0>>, <<59, 130, 245, 255>> >>
     ELSE << <<0, 0, 0, 0>>, <<255, 255, 255, 255>> >>]

\* PALETTES[palette] || PALETTES["BLUE-ON-TRANSPARENT"]
paletteColorsOf(settings) ==
  LET palette == StrOr(settings, "palette", "BLUE-ON-TRANSPARENT")
  IN IF palette \in DOMAIN PALETTES THEN PALETTES[palette] ELSE PALETTES["BLUE-ON-TRANSPARENT"]

\* prepareData; brightness and contrast are kept in percent (the code divides by 100)
prepareData(imageData, settings) ==
  LET sizes == prepareSizes(imageData.width, imageData.height, settings)
      resized == resizeImage(imageData, NumOr(settings, "inputResolution", DEFAULT_INPUT_RESOLUTION))
  IN [resized |-> resized,
      workingData |-> resizeImageNearest(resized, sizes.smallWidth, sizes.smallHeight),
      originalWidth |-> resized.width,
      originalHeight |-> resized.height,
      paletteColors |-> paletteColorsOf(settings),
      brightness |-> NumOr(settings, "brightness", 0),
      contrast |-> NumOr(settings, "contrast", 0)]

\* ---------------------------------------------------------------------
\* Ordered dither, fast path: assembly/dithering.ts, assembly/utils.ts and
\* the wasmOrderedDither wrapper
\* ---------------------------------------------------------------------
BAYER_8X8 ==
  << 0, 32,  8, 40,  2, 34, 10, 42,
    48, 16, 56, 24, 50, 18, 58, 26,
    12, 44,  4, 36, 14, 46,  6, 38,
    60, 28, 52, 20, 62, 30, 54, 22,
     3, 35, 11, 43,  1, 33,  9, 41,
    51, 19, 59, 27, 49, 17, 57, 25,
    15, 47,  7, 39, 13, 45,  5, 37,
    63, 31, 55, 23, 61, 29, 53, 21 >>

\* value * 255 after brightness and contrast, as the fraction n / 20000:
\*   ((value/255 + b/100) - 1/2) * (1 + c/100) + 1/2, times 255
adjustedTimes20000(value, brightness, contrast) ==
  (200 * value + 510 * brightness - 25500) * (100 + contrast) + 2550000

\* utils.adjustBrightnessContrast: clamp(<i32>(v * 255.0), 0, 255)
adjustBrightnessContrast(value, brightness, contrast) ==
  clamp(Trunc(adjustedTimes20000(value, brightness, contrast), 20000), 0, 255)

\* squared distance over R, G, B
rgbDistance(r, g, b, color) ==
  (r - color[1]) * (r - color[1]) + (g - color[2]) * (g - color[2])
    + (b - color[3]) * (b - color[3])

\* findClosestColor: the first index of least distance (strict <)
findClosestColor(r, g, b, palette) ==
  CHOOSE i \in 1..Len(palette) :
    /\ \A j \in 1..Len(palette) : rgbDistance(r, g, b, palette[i]) <= rgbDistance(r, g, b, palette[j])
    /\ \A j \in 1..(i - 1) : rgbDistance(r, g, b, palette[j]) > rgbDistance(r, g, b, palette[i])

\* the pixel the kernel leaves at pixel number i (0-based) of the buffer
orderedDitherPixel(data, width, i, palette, grainSize, brightness, contrast) ==
  LET px == PixelAt(data, i * 4)
      x == i % width
      y == i \div width
      bx == (x \div grainSize) % 8
      by == (y \div grainSize) % 8
      threshold == (BAYER_8X8[by * 8 + bx + 1] - 32) * 4
      r == clamp(adjustBrightnessContrast(px[1], brightness, contrast) + threshold, 0, 255)
      g == clamp(adjustBrightnessContrast(px[2], brightness, contrast) + threshold, 0, 255)
      b == clamp(adjustBrightnessContrast(px[3], brightness, contrast) + threshold, 0, 255)
  IN IF px[4] < 10 THEN px
     ELSE palette[findClosestColor(r, g, b, palette)]

\* the kernel orderedDither over the pixel region of the linear memory
orderedDither(data, width, height, palette, grainSize, brightness, contrast) ==
  [k \in 1..Len(data) |->
     IF (k - 1) \div 4 < width * height
     THEN orderedDitherPixel(data, width, (k - 1) \div 4, palette, grainSize,
                             brightness, contrast)[((k - 1) % 4) + 1]
     ELSE data[k]]

\* wasmOrderedDither: copy in, run the kernel, copy pixelBytes out
wasmOrderedDither(imageData, palette, grainSize, brightness, contrast) ==
  LET pixelBytes == imageData.width * imageData.height * 4
      memory == orderedDither(imageData.data, imageData.width, imageData.height,
                              palette, grainSize, brightness, contrast)
  IN ImageData(SubSeq(memory, 1, pixelBytes), imageData.width, imageData.height)

\* ---------------------------------------------------------------------
\* Ordered dither, managed path: DitheringProcessor private methods
\* ---------------------------------------------------------------------
BAYER_MATRIX_4X4 ==
  << <<0, 8, 2, 10>>, <<12, 4, 14, 6>>, <<3, 11, 1, 9>>, <<15, 7, 13, 5>> >>
BAYER_DIVISOR == 16

\* applyBrightnessContrast: R, G, B of every pixel, alpha untouched
applyBrightnessContrast(imageData, brightness, contrast) ==
  LET data == imageData.data
      adjusted(idx) ==
        [c \in 1..4 |->
           IF c = 4 THEN data[idx + 4]
           ELSE Max(0, Min(255,
                  Round(adjustedTimes20000(data[idx + c], brightness, contrast), 20000)))]
  IN ImageData(Mapped(data, adjusted), imageData.width, imageData.height)

\* the level of applyOrderedDither for pixel (x, y):
\*   floor((gray / 255) * levels + threshold - 0.5), clamped to 0..levels-1,
\*   with gray = (299r + 587g + 114b) / 1000, threshold = (bayer + 0.5) / 16
ditherLevel(r, g, b, x, y, levels) ==
  LET bayer == BAYER_MATRIX_4X4[(y % 4) + 1][(x % 4) + 1]
      n == (299 * r + 587 * g + 114 * b) * levels * 2 * BAYER_DIVISOR
             + (2 * bayer + 1 - BAYER_DIVISOR) * 255000
  IN clamp(n \div (255000 * 2 * BAYER_DIVISOR), 0, levels - 1)

applyOrderedDither(imageData, steps, palette) ==
  LET width == imageData.width
      data == imageData.data
      levels == Max(1, 13 - steps)
      darkColor == palette[1]
      brightColor == palette[2]
      out(x, y) ==
        LET idx == Idx(width, x, y)
            level == ditherLevel(data[idx + 1], data[idx + 2], data[idx + 3], x, y, levels)
        IN [c \in 1..4 |->
              IF levels > 1
              THEN clamp(Round(darkColor[c] * (levels - 1)
                                 + (brightColor[c] - darkColor[c]) * level, levels - 1), 0, 255)
              ELSE clamp(darkColor[c], 0, 255)]
  IN ImageData(Filled(Len(data), width, out), width, imageData.height)

\* findNearestColor: distance over R, G, B and A, first of least distance
rgbaDistance(color, candidate) ==
  (candidate[1] - color[1]) * (candidate[1] - color[1])
    + (candidate[2] - color[2]) * (candidate[2] - color[2])
    + (candidate[3] - color[3]) * (candidate[3] - color[3])
    + (candidate[4] - color[4]) * (candidate[4] - color[4])

\* a search that answers with the colour it was asked about
findNearestColorUnquantized(color, palette) == color

findNearestColor(color, palette) ==
  LET best == CHOOSE i \in 1..Len(palette) :
        /\ \A j \in 1..Len(palette) : rgbaDistance(color, palette[i]) <= rgbaDistance(color, palette[j])
        /\ \A j \in 1..(i - 1) : rgbaDistance(color, palette[j]) > rgbaDistance(color, palette[i])
  IN palette[best]

applyPaletteQuantization(imageData, palette) ==
  LET data == imageData.data
      out(x, y) == findNearestColor(PixelAt(data, Idx(imageData.width, x, y)), palette)
  IN ImageData(Filled(Len(data), imageData.width, out), imageData.width, imageData.height)

\* ---------------------------------------------------------------------
\* DitheringProcessor.processWasm / processJs on pixels.  Each answers with
\* the image resizeImage left, the image handed to the dither step, the image
\* that step left, and the returned image.
\* ---------------------------------------------------------------------
DEFAULT_STEPS == 11

DitheringProcessWasm(imageData, settings) ==
  LET p == prepareData(imageData, settings)
      result == wasmOrderedDither(p.workingData, p.paletteColors, 1, p.brightness, p.contrast)
  IN [resized |-> p.resized,
      entering |-> p.workingData,
      leaving |-> result,
      out |-> resizeImageNearest(result, p.originalWidth, p.originalHeight)]

\* a managed path that returns the dithered working image as it is
DitheringProcessJsNoUpscale(imageData, settings) ==
  LET filter == StrOr(settings, "filter", "ordered")
      steps == NumOr(settings, "steps", DEFAULT_STEPS)
      p == prepareData(imageData, settings)
      adjusted == IF p.brightness # 0 \/ p.contrast # 0
                  THEN applyBrightnessContrast(p.workingData, p.brightness, p.contrast)
                  ELSE p.workingData
      result == IF filter = "ordered"
                THEN applyOrderedDither(adjusted, steps, p.paletteColors)
                ELSE applyPaletteQuantization(adjusted, p.paletteColors)
  IN [resized |-> p.resized, entering |-> adjusted, leaving |-> result, out |-> result]

DitheringProcessJs(imageData, settings) ==
  LET filter == StrOr(settings, "filter", "ordered")
      steps == NumOr(settings, "steps", DEFAULT_STEPS)
      p == prepareData(imageData, settings)
      adjusted == IF p.brightness # 0 \/ p.contrast # 0
                  THEN applyBrightnessContrast(p.workingData, p.brightness, p.contrast)
                  ELSE p.workingData
      result == IF filter = "ordered"
                THEN applyOrderedDither(adjusted, steps, p.paletteColors)
                ELSE applyPaletteQuantization(adjusted, p.paletteColors)
  IN [resized |-> p.resized,
      entering |-> adjusted,
      leaving |-> result,
      out |-> resizeImageNearest(result, p.originalWidth, p.originalHeight)]

\* ---------------------------------------------------------------------
\* Pixelate: the kernel pixelateWithColors, its wrapper, and the processor
\* ---------------------------------------------------------------------
DEFAULT_BLOCK_SIZE == 8
DEFAULT_COLOR_LEVELS == 256

RECURSIVE SumOver(_, _, _)
\* the sum of channel c over the pixel offsets of the set
SumOver(data, offsets, c) ==
  IF offsets = {} THEN 0
  ELSE LET o == CHOOSE o \in offsets : TRUE
       IN data[o + c] + SumOver(data, offsets \ {o}, c)

\* offsets of the pixels of the block at (bx, by), clipped to the image
blockOffsets(width, height, bx, by, blockSize) ==
  { Idx(width, bx + px, by + py) :
      px \in 0..(Min(blockSize, width - bx) - 1), py \in 0..(Min(blockSize, height - by) - 1) }

\* <u8>(NativeMathf.round(avg / levelStep) * levelStep), levelStep = 255 / (colorLevels - 1)
quantizeWasm(avg, colorLevels) ==
  Trunc(Round(avg * (colorLevels - 1), 255) * 255, colorLevels - 1) % 256

\* the kernel: totals by integer division, R, G, B quantized, alpha averaged
pixelateWithColors(data, width, height, blockSize, colorLevels) ==
  LET out(x, y) ==
        LET offsets == blockOffsets(width, height, (x \div blockSize) * blockSize,
                                    (y \div blockSize) * blockSize, blockSize)
            count == Cardinality(offsets)
        IN [c \in 1..4 |->
              IF c = 4 THEN (SumOver(data, offsets, 4) \div count) % 256
              ELSE quantizeWasm(SumOver(data, offsets, c) \div count, colorLevels)]
  IN Filled(width * height * 4, width, out)

wasmPixelateWithColors(imageData, blockSize, colorLevels) ==
  LET pixelBytes == imageData.width * imageData.height * 4
      memory == pixelateWithColors(imageData.data, imageData.width, imageData.height,
                                   blockSize, colorLevels)
  IN ImageData(SubSeq(memory, 1, pixelBytes), imageData.width, imageData.height)

\* Math.max(2, Math.round(settings.blockSize || 8))
blockSizeOf(settings) == Max(2, NumOr(settings, "blockSize", DEFAULT_BLOCK_SIZE))
\* Math.max(2, Math.min(256, Math.round(settings.colorLevels || 256)))
colorLevelsOf(settings) == Max(2, Min(256, NumOr(settings, "colorLevels", DEFAULT_COLOR_LEVELS)))

PixelateProcessWasm(imageData, settings) ==
  [out |-> wasmPixelateWithColors(imageData, blockSizeOf(settings), colorLevelsOf(settings))]

\* quantize(total / count, levels)
quantize(total, count, levels) ==
  IF levels >= 256 THEN Round(total, count)
  ELSE Round(Round(total * (levels - 1), count * 255) * 255, levels - 1)

PixelateProcessJs(imageData, settings) ==
  LET blockSize == blockSizeOf(settings)
      colorLevels == colorLevelsOf(settings)
      width == imageData.width
      height == imageData.height
      data == imageData.data
      smallWidth == Max(1, width \div blockSize)
      smallHeight == Max(1, height \div blockSize)
      \* the averaged and quantized pixel of block (sx, sy)
      small(sx, sy) ==
        LET offsets == { Idx(width, sx * blockSize + bx, sy * blockSize + by) :
                           bx \in { b \in 0..(blockSize - 1) : sx * blockSize + b < width },
                           by \in { b \in 0..(blockSize - 1) : sy * blockSize + b < height } }
            count == Cardinality(offsets)
        IN [c \in 1..4 |->
              IF c = 4 THEN Round(SumOver(data, offsets, 4), count)
              ELSE quantize(SumOver(data, offsets, c), count, colorLevels)]
      smallData == Filled(smallWidth * smallHeight * 4, smallWidth, small)
      up(x, y) == PixelAt(smallData, Idx(smallWidth, Min(x \div blockSize, smallWidth - 1),
                                                     Min(y \div blockSize, smallHeight - 1)))
  IN [out |-> ImageData(Filled(width * height * 4, width, up), width, height)]

\* ---------------------------------------------------------------------
\* Grayscale and plain pixelate: the kernels and their wrappers
\* ---------------------------------------------------------------------
\* a luminosity rounded to the nearest integer
rgbToGrayRounded(r, g, b) == Round(r * 299 + g * 587 + b * 114, 1000)

\* utils.rgbToGray: i32 division
rgbToGray(r, g, b) == (r * 299 + g * 587 + b * 114) \div 1000

\* a kernel that stores gray to R only
grayscaleRedOnly(data, width, height) ==
  [k \in 1..Len(data) |->
     IF (k - 1) \div 4 < width * height /\ (k - 1) % 4 = 0
     THEN LET px == PixelAt(data, ((k - 1) \div 4) * 4)
          IN rgbToGray(px[1], px[2], px[3]) % 256
     ELSE data[k]]

\* the kernel grayscale: gray stored to R, G and B, alpha not stored
grayscale(data, width, height) ==
  [k \in 1..Len(data) |->
     IF (k - 1) \div 4 < width * height /\ (k - 1) % 4 # 3
     THEN LET px == PixelAt(data, ((k - 1) \div 4) * 4)
          IN rgbToGray(px[1], px[2], px[3]) % 256
     ELSE data[k]]

wasmGrayscale(imageData) ==
  LET pixelBytes == imageData.width * imageData.height * 4
      memory == grayscale(imageData.data, imageData.width, imageData.height)
  IN ImageData(SubSeq(memory, 1, pixelBytes), imageData.width, imageData.height)

\* the kernel pixelate: every channel averaged by i32 division over the clipped block
pixelate(data, width, height, blockSize) ==
  LET out(x, y) ==
        LET offsets == blockOffsets(width, height, (x \div blockSize) * blockSize,
                                    (y \div blockSize) * blockSize, blockSize)
            count == Cardinality(offsets)
        IN [c \in 1..4 |-> (SumOver(data, offsets, c) \div count) % 256]
  IN Filled(width * height * 4, width, out)

wasmPixelate(imageData, blockSize) ==
  LET pixelBytes == imageData.width * imageData.height * 4
      memory == pixelate(imageData.data, imageData.width, imageData.height, blockSize)
  IN ImageData(SubSeq(memory, 1, pixelBytes), imageData.width, imageData.height)

\* ---------------------------------------------------------------------
\* applyBaseSettings(original, processed, baseSettings)
\* ---------------------------------------------------------------------
\* an alpha that is cut down to the whole part instead of rounded
opacityAlphaTruncated(alpha, base_opacity) == clamp((alpha * base_opacity) \div 100, 0, 255)

\* the alpha byte Math.round(alpha * opacity) leaves in a Uint8ClampedArray
opacityAlpha(alpha, base_opacity) == clamp(Round(alpha * base_opacity, 100), 0, 255)

applyBaseSettings(original, processed, base_opacity) ==
  IF base_opacity >= 100 THEN processed
  ELSE LET data == processed.data
           faded(idx) == [c \in 1..4 |-> IF c = 4 THEN opacityAlpha(data[idx + 4], base_opacity)
                                         ELSE data[idx + c]]
       IN ImageData(Mapped(data, faded), processed.width, processed.height)

\* the call as its caller sees it: the two buffers passed, as the call leaves
\* them, and the image returned.  _original is not touched; the opacity is
\* written to a copy, new Uint8ClampedArray(processed.data).
applyBaseSettingsBuffers(original, processed, base_opacity) ==
  [original |-> original,
   processed |-> processed,
   result |-> applyBaseSettings(original, processed, base_opacity)]

\* ---------------------------------------------------------------------
\* EffectPage: scaleImageData and the tail of handleProcess / processVideo
\* ---------------------------------------------------------------------
\* scaleImageData(imageData, targetWidth, targetHeight).  canvas2d: both
\* getContext("2d") calls answer with a context; when one answers null the
\* image is returned as it came.  drawImage with imageSmoothingEnabled = false
\* takes for every target pixel the source pixel under its centre; the
\* colour conversions of the canvas are not followed.
scaleImageData(imageData, targetWidth, targetHeight, canvas2d) ==
  IF ~canvas2d THEN imageData
  ELSE LET src(x, y) ==
             PixelAt(imageData.data,
                     Idx(imageData.width,
                         ((2 * x + 1) * imageData.width) \div (2 * targetWidth),
                         ((2 * y + 1) * imageData.height) \div (2 * targetHeight)))
       IN ImageData(Filled(targetWidth * targetHeight * 4, targetWidth, src),
                    targetWidth, targetHeight)

\* baseSettings.keep_original_resolution && (final.width !== originalWidth ||
\* final.height !== originalHeight)
scalesBack(original, image, baseSettings) ==
  /\ baseSettings.keep_original_resolution
  /\ (image.width # original.width \/ image.height # original.height)

\* a tail that returns what applyBaseSettings returned, whatever the flag
finalImageUnscaled(original, processed, baseSettings, canvas2d) ==
  applyBaseSettings(original, processed, baseSettings.base_opacity)

\* let finalImage = applyBaseSettings(...); if (...) finalImage = scaleImageData(...)
finalImage(original, processed, baseSettings, canvas2d) ==
  LET image == applyBaseSettings(original, processed, baseSettings.base_opacity)
  IN IF scalesBack(original, image, baseSettings)
     THEN scaleImageData(image, original.width, original.height, canvas2d)
     ELSE image

\* ---------------------------------------------------------------------
\* Numbers of the form (p + q * sqrt(2)) / d, for the rotated halftone grid
\* ---------------------------------------------------------------------
RECURSIVE GCD(_, _)
GCD(a, b) == IF b = 0 THEN a ELSE GCD(b, a % b)

Abs(n) == IF n < 0 THEN -n ELSE n

\* the decimals of sqrt(2) - 1
SQRT2_FRACTION == <<4, 1, 4, 2, 1, 3, 5, 6, 2, 3, 7, 3, 0, 9, 5, 0, 4, 8, 8>>

RECURSIVE BelowSqrt2Fraction(_, _, _)
\* r / b < sqrt(2) - 1, for 0 <= r < b, decimal by decimal from the i-th
BelowSqrt2Fraction(r, b, i) ==
  IF i > Len(SQRT2_FRACTION) THEN FALSE
  ELSE LET digit == (10 * r) \div b
       IN IF digit < SQRT2_FRACTION[i] THEN TRUE
          ELSE IF digit > SQRT2_FRACTION[i] THEN FALSE
          ELSE BelowSqrt2Fraction((10 * r) % b, b, i + 1)

\* the sign of p + q * sqrt(2)
SurdSign(p, q) ==
  IF p = 0 /\ q = 0 THEN 0
  ELSE IF p >= 0 /\ q >= 0 THEN 1
  ELSE IF p <= 0 /\ q <= 0 THEN -1
  ELSE LET a == Abs(p)
           b == Abs(q)
           \* the sign of a - b * sqrt(2)
           below == IF a >= 2 * b THEN FALSE
                    ELSE IF a <= b THEN TRUE
                    ELSE BelowSqrt2Fraction(a - b, b, 1)
       IN IF (p > 0) = below THEN -1 ELSE 1

\* Math.floor((p + q * sqrt(2)) / d) for d > 0
SurdFloor(p, q, d) ==
  LET lo == Min((p + q) \div d, (p + 2 * q) \div d)
      hi == Max((p + q) \div d, (p + 2 * q) \div d)
  IN CHOOSE n \in lo..hi :
       SurdSign(p - n * d, q) >= 0 /\ SurdSign(p - (n + 1) * d, q) < 0

\* Math.ceil((p + q * sqrt(2)) / d) for d > 0
SurdCeil(p, q, d) == -SurdFloor(-p, -q, d)

\* ---------------------------------------------------------------------
\* HalftoneProcessor.process (managed path only)
\* ---------------------------------------------------------------------
COLORS ==
  [k \in {"BLACK", "WHITE", "BLUE", "CUSTOM"} |->
     CASE k = "BLACK" -> <<0, 0, 0, 255>>
       [] k = "WHITE" -> <<255, 255, 255, 255>>
       [] k = "BLUE" -> <<59, 130, 245, 255>>
       [] k = "CUSTOM" -> <<0, 0, 0, 255>>]

DEFAULT_DOT_SIZE == 6
DEFAULT_SPACING == 8
DEFAULT_ANGLE == 45

\* twice the cosine and the sine as <<a, b>> for a + b * sqrt(2); the angles
\* followed are 45 and 90 degrees
rotation(angle) ==
  CASE angle = 45 -> [cos |-> <<0, 1>>, sin |-> <<0, 1>>]
    [] angle = 90 -> [cos |-> <<0, 0>>, sin |-> <<2, 0>>]

\* Math.ceil(Math.sqrt(width * width + height * height) / spacing) + 2
gridSize(width, height, spacing) ==
  LET squared == width * width + height * height
      k == CHOOSE k \in 0..(width + height) :
             /\ k * k * spacing * spacing >= squared
             /\ k = 0 \/ (k - 1) * (k - 1) * spacing * spacing < squared
  IN k + 2

\* the grid indices gx (gy) doubled: -size/2, -size/2 + 1, ... below size/2
gridIndices2(size) == { 2 * i - size : i \in 0..(size - 1) }

\* px and py of grid cell (gx2 / 2, gy2 / 2), each times 4, as
\* [p, q] for p + q * sqrt(2)
cellCentre(width, height, spacing, rot, gx2, gy2) ==
  [px |-> [p |-> 2 * width + spacing * (gx2 * rot.cos[1] - gy2 * rot.sin[1]),
           q |-> spacing * (gx2 * rot.cos[2] - gy2 * rot.sin[2])],
   py |-> [p |-> 2 * height + spacing * (gx2 * rot.sin[1] + gy2 * rot.cos[1]),
           q |-> spacing * (gx2 * rot.sin[2] + gy2 * rot.cos[2])]]

\* px < 0 || px >= width || py < 0 || py >= height
outsideImage(width, height, c) ==
  \/ SurdSign(c.px.p, c.px.q) < 0
  \/ SurdSign(c.px.p - 4 * width, c.px.q) >= 0
  \/ SurdSign(c.py.p, c.py.q) < 0
  \/ SurdSign(c.py.p - 4 * height, c.py.q) >= 0

\* sampleBrightness(data, width, height, px, py, spacing / 2): the grays
\* summed, times 1000, and the number of pixels sampled
sampleBrightness(data, width, height, c, spacing) ==
  LET minX == Max(0, SurdFloor(c.px.p - 2 * spacing, c.px.q, 4))
      maxX == Min(width - 1, SurdCeil(c.px.p + 2 * spacing, c.px.q, 4))
      minY == Max(0, SurdFloor(c.py.p - 2 * spacing, c.py.q, 4))
      maxY == Min(height - 1, SurdCeil(c.py.p + 2 * spacing, c.py.q, 4))
      window == { Idx(width, x, y) : x \in minX..maxX, y \in minY..maxY }
  IN [total |-> 299 * SumOver(data, window, 1) + 587 * SumOver(data, window, 2)
                  + 114 * SumOver(data, window, 3),
      count |-> Cardinality(window)]

\* a radius that grows with the brightness: (brightness / 255) * (dotSize / 2)
dotRadiusOfBrightness(sample, dotSize) ==
  LET n == IF sample.count > 0 THEN sample.total * dotSize ELSE dotSize
      d == IF sample.count > 0 THEN 510000 * sample.count ELSE 2
      g == GCD(n, d)
  IN [n |-> n \div g, d |-> d \div g]

\* radius = ((255 - brightness) / 255) * (dotSize / 2) as the fraction n / d
dotRadius(sample, dotSize) ==
  LET n == IF sample.count > 0 THEN (255000 * sample.count - sample.total) * dotSize ELSE 0
      d == IF sample.count > 0 THEN 510000 * sample.count ELSE 1
      g == GCD(n, d)
  IN [n |-> n \div g, d |-> d \div g]

\* a drawDot whose bounding box is not clipped to the image
drawDotUnclipped(width, height, c, r, shape, x, y) ==
  LET minX == SurdFloor(c.px.p * r.d - 4 * r.n, c.px.q * r.d, 4 * r.d)
      maxX == SurdCeil(c.px.p * r.d + 4 * r.n, c.px.q * r.d, 4 * r.d)
      minY == SurdFloor(c.py.p * r.d - 4 * r.n, c.py.q * r.d, 4 * r.d)
      maxY == SurdCeil(c.py.p * r.d + 4 * r.n, c.py.q * r.d, 4 * r.d)
      \* dx = (u - c.px.q * sqrt(2)) / 4, dy = (v - c.py.q * sqrt(2)) / 4
      u == 4 * x - c.px.p
      v == 4 * y - c.py.p
      sx == IF SurdSign(u, -c.px.q) < 0 THEN -1 ELSE 1
      sy == IF SurdSign(v, -c.py.q) < 0 THEN -1 ELSE 1
      inside ==
        CASE shape = "circle" ->
               SurdSign((u * u + v * v + 2 * c.px.q * c.px.q + 2 * c.py.q * c.py.q) * r.d * r.d
                          - 16 * r.n * r.n,
                        -2 * (u * c.px.q + v * c.py.q) * r.d * r.d) <= 0
          [] shape = "square" ->
               /\ SurdSign(sx * u * r.d - 4 * r.n, -sx * c.px.q * r.d) <= 0
               /\ SurdSign(sy * v * r.d - 4 * r.n, -sy * c.py.q * r.d) <= 0
          [] shape = "diamond" ->
               SurdSign(5 * r.d * (sx * u + sy * v) - 28 * r.n,
                        -5 * r.d * (sx * c.px.q + sy * c.py.q)) <= 0
          [] OTHER -> FALSE
  IN x \in minX..maxX /\ y \in minY..maxY /\ inside

\* drawDot: whether the dot of radius r centred on c stores to pixel (x, y)
drawDot(width, height, c, r, shape, x, y) ==
  LET minX == Max(0, SurdFloor(c.px.p * r.d - 4 * r.n, c.px.q * r.d, 4 * r.d))
      maxX == Min(width - 1, SurdCeil(c.px.p * r.d + 4 * r.n, c.px.q * r.d, 4 * r.d))
      minY == Max(0, SurdFloor(c.py.p * r.d - 4 * r.n, c.py.q * r.d, 4 * r.d))
      maxY == Min(height - 1, SurdCeil(c.py.p * r.d + 4 * r.n, c.py.q * r.d, 4 * r.d))
      \* dx = (u - c.px.q * sqrt(2)) / 4, dy = (v - c.py.q * sqrt(2)) / 4
      u == 4 * x - c.px.p
      v == 4 * y - c.py.p
      sx == IF SurdSign(u, -c.px.q) < 0 THEN -1 ELSE 1
      sy == IF SurdSign(v, -c.py.q) < 0 THEN -1 ELSE 1
      inside ==
        CASE shape = "circle" ->
               SurdSign((u * u + v * v + 2 * c.px.q * c.px.q + 2 * c.py.q * c.py.q) * r.d * r.d
                          - 16 * r.n * r.n,
                        -2 * (u * c.px.q + v * c.py.q) * r.d * r.d) <= 0
          [] shape = "square" ->
               /\ SurdSign(sx * u * r.d - 4 * r.n, -sx * c.px.q * r.d) <= 0
               /\ SurdSign(sy * v * r.d - 4 * r.n, -sy * c.py.q * r.d) <= 0
          [] shape = "diamond" ->
               SurdSign(5 * r.d * (sx * u + sy * v) - 28 * r.n,
                        -5 * r.d * (sx * c.px.q + sy * c.py.q)) <= 0
          [] OTHER -> FALSE
  IN x \in minX..maxX /\ y \in minY..maxY /\ inside

HalftoneProcess(imageData, settings) ==
  LET dotSize == Max(2, NumOr(settings, "dotSize", DEFAULT_DOT_SIZE))
      spacing == Max(3, NumOr(settings, "spacing", DEFAULT_SPACING))
      shape == StrOr(settings, "shape", "circle")
      colorKey == StrOr(settings, "color", "BLACK")
      backgroundKey == StrOr(settings, "background", "WHITE")
      rot == rotation(NumOr(settings, "angle", DEFAULT_ANGLE))
      width == imageData.width
      height == imageData.height
      bgColor == IF backgroundKey = "TRANSPARENT" THEN <<0, 0, 0, 0>>
                 ELSE IF backgroundKey \in DOMAIN COLORS THEN COLORS[backgroundKey]
                 ELSE COLORS["WHITE"]
      dotColor == COLORS[colorKey]
      indices == gridIndices2(gridSize(width, height, spacing))
      \* the cells that draw a dot, with the radius of the dot
      dots ==
        { cell \in { [c |-> cellCentre(width, height, spacing, rot, gx2, gy2),
                      r |-> dotRadius(
                              sampleBrightness(imageData.data, width, height,
                                cellCentre(width, height, spacing, rot, gx2, gy2), spacing),
                              dotSize)] :
                     gx2 \in indices, gy2 \in indices } :
            /\ ~outsideImage(width, height, cell.c)
            /\ ~(2 * cell.r.n < cell.r.d) }
      out(x, y) ==
        IF \E cell \in dots : drawDot(width, height, cell.c, cell.r, shape, x, y)
        THEN dotColor ELSE bgColor
  IN [out |-> ImageData(Filled(width * height * 4, width, out), width, height)]

\* ---------------------------------------------------------------------
\* The kernel halftone (axis-aligned grid, circular dots) and wasmHalftone
\* ---------------------------------------------------------------------
\* the output region the kernel leaves: the background, and the dot colour
\* where the dot of a grid cell covers the pixel
halftone(data, width, height, dotSize, spacing, dotColor, bgColor) ==
  LET cells == { <<gx, gy>> \in (0..(width - 1)) \X (0..(height - 1)) :
                   gx % spacing = 0 /\ gy % spacing = 0 }
      \* rgbToGray summed over the clipped cell, and the pixels counted
      offsetsOf(cell) == blockOffsets(width, height, cell[1], cell[2], spacing)
      totalBrightness(cell) ==
        LET RECURSIVE grays(_)
            grays(offsets) ==
              IF offsets = {} THEN 0
              ELSE LET o == CHOOSE o \in offsets : TRUE
                   IN rgbToGray(data[o + 1], data[o + 2], data[o + 3]) + grays(offsets \ {o})
        IN grays(offsetsOf(cell))
      count(cell) == Cardinality(offsetsOf(cell))
      \* dotRadius = maxRadius * (1 - avgBrightness / 255) = radiusN / radiusD
      radiusN(cell) == dotSize * (255 * count(cell) - totalBrightness(cell))
      radiusD(cell) == 510 * count(cell)
      covers(cell, x, y) ==
        LET n == radiusN(cell)
            d == radiusD(cell)
            \* centerX = gx + spacing / 2, centerY = gy + spacing / 2
            startY == Max(0, Trunc((2 * cell[2] + spacing) * 255 * count(cell) - n, d))
            endY == Min(height - 1, Trunc((2 * cell[2] + spacing) * 255 * count(cell) + n, d))
            startX == Max(0, Trunc((2 * cell[1] + spacing) * 255 * count(cell) - n, d))
            endX == Min(width - 1, Trunc((2 * cell[1] + spacing) * 255 * count(cell) + n, d))
            dx2 == 2 * x - 2 * cell[1] - spacing
            dy2 == 2 * y - 2 * cell[2] - spacing
        IN /\ ~(2 * n < d)
           /\ x \in startX..endX
           /\ y \in startY..endY
           /\ (dx2 * dx2 + dy2 * dy2) * (255 * count(cell)) * (255 * count(cell)) <= n * n
      out(x, y) ==
        IF \E cell \in cells : covers(cell, x, y)
        THEN [c \in 1..4 |-> dotColor[c] % 256]
        ELSE [c \in 1..4 |-> bgColor[c] % 256]
  IN Filled(width * height * 4, width, out)

\* wasmHalftone: pixels at 0, output at pixelBytes, the output copied out
wasmHalftone(imageData, params) ==
  LET pixelBytes == imageData.width * imageData.height * 4
      memory == imageData.data \o
                halftone(imageData.data, imageData.width, imageData.height,
                         params.dotSize, params.spacing, params.dotColor, params.bgColor)
  IN ImageData(SubSeq(memory, pixelBytes + 1, pixelBytes + pixelBytes),
               imageData.width, imageData.height)

\* ---------------------------------------------------------------------
\* Inputs of the selector model
\* ---------------------------------------------------------------------
\* a 2x2 image, and a 30000x800 panorama whose 96 MB exceed the 64 MiB maximum
TinyImage == [width |-> 2, height |-> 2, content |-> "tiny"]
WideImage == [width |-> 30000, height |-> 800, content |-> "wide"]
CallImages == {TinyImage, WideImage}

\* no declared key at all; a negative inputResolution, on which prepareData
\* throws; grain 1, with which the panorama is dithered at its full 96 MB
CallSettings ==
  { [unknown |-> 1],
    [inputResolution |-> -1],
    [inputResolution |-> 800, grainSize |-> 1] }

BatchItems ==
  { [filename |-> "a.png", imageData |-> TinyImage],
    [filename |-> "b.png", imageData |-> WideImage] }

SeqsUpTo(S, n) == UNION { [1..k -> S] : k \in 0..n }

\* ---------------------------------------------------------------------
\* State after module evaluation
\* ---------------------------------------------------------------------
IdleBatch ==
  [pc |-> "idle", images |-> <<>>, settings |-> [unknown |-> 1],
   i |-> 0, results |-> <<>>, progress |-> <<>>, call |-> 0, returned |-> <<>>]

IdleFx ==
  [image |-> TinyImage, settings |-> [unknown |-> 1], wasm |-> <<>>, js |-> <<>>, base |-> <<>>]

\* the linear memory as new WebAssembly.Memory leaves it: no call has copied
\* its pixels or its palette into it
ZeroedLinear == [pixels |-> 0, palette |-> 0]

\* handleProcess has not been invoked: the state of a mounted EffectPage
IdleRun ==
  [pc |-> "idle", files |-> <<>>, settings |-> [unknown |-> 1], i |-> 0, frame |-> 0,
   call |-> 0, step |-> "config", isProcessing |-> FALSE,
   progress |-> [current |-> 0, total |-> 0, filename |-> "null"],
   results |-> <<>>, processedResults |-> <<>>]

\* no process() has resolved its parameters
NothingHanded == [proc |-> "none"]

\* no LivePreview is mounted
IdlePreview ==
  [originalImage |-> TinyImage, settings |-> [unknown |-> 1], showOriginal |-> FALSE,
   isProcessing |-> FALSE, processedDataUrl |-> NoAnswer, effects |-> 0, resumed |-> {}]

\* no effect page is mounted
IdlePage ==
  [selectedPreset |-> "null", settings |-> [unknown |-> 1],
   baseSettings |-> [base_opacity |-> 100, keep_original_resolution |-> FALSE],
   last |-> [kind |-> "none"], lastConfig |-> "none",
   before |-> [unknown |-> 1]]

Init ==
  /\ fx = IdleFx
  /\ page = IdlePage
  /\ linear = ZeroedLinear
  /\ run = IdleRun
  /\ preview = IdlePreview
  /\ handed = NothingHanded
  /\ wasmInitialized = FALSE
  /\ wasmInitPromise = "null"
  /\ wasmInstance = FALSE
  /\ wasmMemory = 0
  /\ initPc = "idle"
  /\ initCalls = 0
  /\ processor \in Processors
  /\ calls = <<>>
  /\ batch = IdleBatch

\* ---------------------------------------------------------------------
\* initWasm(): fetch, arrayBuffer, new Memory, instantiate
\* ---------------------------------------------------------------------
\* await fetch("/wasm/release.wasm")
InitFetch(ok) ==
  /\ initPc = "fetch"
  /\ initPc' = IF ok THEN "arrayBuffer" ELSE "returnedFalse"
  /\ UNCHANGED <<wasmInitialized, wasmInitPromise, wasmInstance, wasmMemory, initCalls, processor, calls, batch, fx, page, linear, run, preview, handed>>

\* await response.arrayBuffer(); then wasmMemory = new WebAssembly.Memory(...)
InitArrayBuffer(ok) ==
  /\ initPc = "arrayBuffer"
  /\ initPc' = IF ok THEN "instantiate" ELSE "returnedFalse"
  /\ wasmMemory' = IF ok THEN INITIAL_PAGES ELSE wasmMemory
  /\ UNCHANGED <<wasmInitialized, wasmInitPromise, wasmInstance, initCalls, processor, calls, batch, fx, page, linear, run, preview, handed>>

\* await WebAssembly.instantiate(...); then wasmInstance = result.instance
InitInstantiate(ok) ==
  /\ initPc = "instantiate"
  /\ initPc' = IF ok THEN "returnedTrue" ELSE "returnedFalse"
  /\ wasmInstance' = IF ok THEN TRUE ELSE wasmInstance
  /\ UNCHANGED <<wasmInitialized, wasmInitPromise, wasmMemory, initCalls, processor, calls, batch, fx, page, linear, run, preview, handed>>

\* the .then callback of ensureWasmLoaded
InitThen ==
  /\ initPc \in {"returnedTrue", "returnedFalse"}
  /\ initPc' = "done"
  /\ wasmInitialized' = TRUE
  /\ wasmInitPromise' = IF initPc = "returnedTrue" THEN "true" ELSE "false"
  /\ UNCHANGED <<wasmInstance, wasmMemory, initCalls, processor, calls, batch, fx, page, linear, run, preview, handed>>

\* ---------------------------------------------------------------------
\* BaseWasmProcessor.process
\* ---------------------------------------------------------------------
\* the synchronous part of process(): it calls ensureWasmLoaded() and awaits.
\* The record is the new invocation; wasmInitialized answers isWasmAvailable()
\* at once, otherwise the call waits for wasmInitPromise.
newCall(proc, imageData, settings, owner) ==
  [proc |-> proc, arg |-> imageData, imageData |-> imageData, settings |-> settings,
   owner |-> owner, pc |-> "awaitLoad",
   waitsOn |-> IF wasmInitialized THEN "value" ELSE "promise",
   loadValue |-> wasmInitialized /\ isWasmAvailable,
   useWasm |-> "unset", wasm |-> "none", js |-> "none", result |-> NoAnswer,
   copied |-> ZeroedLinear]

\* an ensureWasmLoaded() that does not look at wasmInitPromise: every call
\* made before the load has settled invokes initWasm()
ensureWasmLoadedEachCall ==
  IF ~wasmInitialized
  THEN /\ wasmInitPromise' = "pending"
       /\ initCalls' = initCalls + 1
       /\ initPc' = IF wasmInstance THEN "returnedTrue" ELSE "fetch"
       /\ UNCHANGED <<wasmInitialized, wasmInstance, wasmMemory>>
  ELSE UNCHANGED loaderVars

\* ensureWasmLoaded(): its effect on the loader when a call invokes it
ensureWasmLoaded ==
  IF ~wasmInitialized /\ wasmInitPromise = "null"
  THEN /\ wasmInitPromise' = "pending"
       /\ initCalls' = initCalls + 1
       /\ initPc' = IF wasmInstance THEN "returnedTrue" ELSE "fetch"
       /\ UNCHANGED <<wasmInitialized, wasmInstance, wasmMemory>>
  ELSE UNCHANGED loaderVars

\* has the value the call awaits arrived, and which is it
loadSettled(call) == call.waitsOn = "value" \/ wasmInitPromise \in {"true", "false"}

\* a selector that gives the fast path up for good once it has thrown
loadResultLatched(call) ==
  /\ IF call.waitsOn = "value" THEN call.loadValue ELSE wasmInitPromise = "true"
  /\ \A c \in 1..Len(calls) : calls[c].wasm # "threw"

loadResult(call) == IF call.waitsOn = "value" THEN call.loadValue ELSE wasmInitPromise = "true"

\* a caller other than processBatch (the preview, the effect page) calls process()
DirectCalls == { c \in 1..Len(calls) : calls[c].owner = "direct" }

Process(imageData, settings) ==
  /\ Cardinality(DirectCalls) < MaxDirect
  /\ calls' = Append(calls, newCall(processor, imageData, settings, "direct"))
  /\ ensureWasmLoaded
  /\ UNCHANGED <<processor, batch, fx, page, linear, run, preview, handed>>

\* memory.set(data, 0) of call c and, in wasmOrderedDither, its palette
\* written after the pixels
copyIn(mem, c, proc) ==
  [pixels |-> c, palette |-> IF proc = "dithering" THEN c ELSE mem.palette]

\* memory.slice(0, pixelBytes) after the kernel has run over the pixels (with
\* the palette, in orderedDither): the calls the output was computed from
copyOut(mem, proc) ==
  [pixels |-> mem.pixels, palette |-> IF proc = "dithering" THEN mem.palette ELSE 0]

\* a wrapper that copies out what the memory held before its own copy-in
wasmWrapperInterleaved(mem, c, proc) ==
  [linear |-> copyIn(mem, c, proc), copied |-> copyOut(mem, proc)]

\* a wasm* wrapper from its copy-in to its copy-out, one synchronous function
wasmWrapper(mem, c, proc) ==
  [linear |-> copyIn(mem, c, proc), copied |-> copyOut(copyIn(mem, c, proc), proc)]

\* process() resumes with useWasm: the fast path is tried inside try/catch and
\* a throw falls through to processJs, which runs to its first await
ProcessSelect(c, trap, oom) ==
  /\ c \in 1..Len(calls)
  /\ calls[c].pc = "awaitLoad"
  /\ loadSettled(calls[c])
  /\ LET call == calls[c]
         useWasm == loadResult(call)
         fast == processWasm(call.proc, call.imageData, call.settings, wasmMemory, trap)
         buffer == IF useWasm THEN fast.imageData ELSE call.imageData
         managed == processJs(call.proc, buffer, call.settings, oom)
         through == wasmWrapper(linear, c, call.proc)
         \* the wrapper got as far as its copy-in
         copiedIn ==
           /\ useWasm
           /\ ~prepareThrows(call.proc, call.imageData, call.settings)
           /\ ~ensureMemory(wasmMemory,
                            requiredBytes(call.proc, call.imageData, call.settings)).throws
     IN /\ linear' = IF copiedIn THEN through.linear ELSE linear
        /\ IF useWasm /\ ~fast.throws
           THEN /\ calls' = [calls EXCEPT ![c] =
                     [call EXCEPT !.useWasm = "yes", !.wasm = "returned", !.pc = "resolved",
                                  !.imageData = buffer, !.result = fast.result,
                                  !.copied = through.copied]]
                /\ wasmMemory' = fast.pages
           ELSE /\ calls' = [calls EXCEPT ![c] =
                     [call EXCEPT !.useWasm = IF useWasm THEN "yes" ELSE "no",
                                  !.wasm = IF useWasm THEN "threw" ELSE "none",
                                  !.js = IF managed.rejects THEN "rejected" ELSE "resolved",
                                  !.pc = "awaitJs",
                                  !.imageData = buffer, !.result = managed.result]]
                /\ wasmMemory' = IF useWasm THEN fast.pages ELSE wasmMemory
  /\ (~loadResult(calls[c]) => ~trap)
  /\ (oom => trap \/ ~loadResult(calls[c]))
  /\ UNCHANGED <<wasmInitialized, wasmInitPromise, wasmInstance, initPc, initCalls, processor, batch, fx, page, run, preview, handed>>

\* `await this.processJs(...)` resumes: process() returns the result or rethrows
ProcessJsSettled(c) ==
  /\ c \in 1..Len(calls)
  /\ calls[c].pc = "awaitJs"
  /\ calls' = [calls EXCEPT ![c].pc = IF calls[c].js = "rejected" THEN "rejected" ELSE "resolved"]
  /\ UNCHANGED <<loaderVars, processor, batch, fx, page, linear, run, preview, handed>>

\* ---------------------------------------------------------------------
\* BaseProcessImage.processBatch
\* ---------------------------------------------------------------------
\* an iteration that reports the zero-based index
batchIterationZeroBased(b) ==
  LET item == b.images[b.i + 1]
  IN /\ batch' = [b EXCEPT
           !.progress = Append(b.progress,
               [current |-> b.i, total |-> Len(b.images), filename |-> item.filename]),
           !.call = Len(calls) + 1]
     /\ calls' = Append(calls, newCall(processor, item.imageData, b.settings, "batch"))
     /\ ensureWasmLoaded
     /\ UNCHANGED <<processor, fx, page, linear, run, preview, handed>>

\* onProgress?.({current: i + 1, total, filename}) and this.process(...) of item i+1
batchIteration(b) ==
  LET item == b.images[b.i + 1]
  IN /\ batch' = [b EXCEPT
           !.progress = Append(b.progress,
               [current |-> b.i + 1, total |-> Len(b.images), filename |-> item.filename]),
           !.call = Len(calls) + 1]
     /\ calls' = Append(calls, newCall(processor, item.imageData, b.settings, "batch"))
     /\ ensureWasmLoaded
     /\ UNCHANGED <<processor, fx, page, linear, run, preview, handed>>

\* processBatch(images, settings, onProgress) is called: it runs to its first await
ProcessBatch(images, settings) ==
  /\ batch.pc = "idle"
  /\ LET b == [batch EXCEPT !.pc = "running", !.images = images, !.settings = settings]
     IN IF Len(images) = 0
        THEN /\ batch' = [b EXCEPT !.pc = "resolved", !.returned = <<>>]
             /\ UNCHANGED <<calls, loaderVars, processor, fx, page, linear, run, preview, handed>>
        ELSE batchIteration(b)

\* a loop that swallows the rejection of an item and goes on with the next
BatchResumeCatching ==
  /\ batch.pc = "running"
  /\ calls[batch.call].pc \in {"resolved", "rejected"}
  /\ LET item == batch.images[batch.i + 1]
         b == [batch EXCEPT
                 !.results = IF calls[batch.call].pc = "rejected" THEN batch.results
                             ELSE Append(batch.results,
                                    [filename |-> item.filename,
                                     imageData |-> calls[batch.call].result]),
                 !.i = batch.i + 1]
     IN IF b.i < Len(b.images)
        THEN batchIteration(b)
        ELSE /\ batch' = [b EXCEPT !.pc = "resolved", !.returned = b.results]
             /\ UNCHANGED <<calls, loaderVars, processor, fx, page, linear, run, preview, handed>>

\* a loop that puts each pair in front of the list (results.unshift)
BatchResumeUnshift ==
  /\ batch.pc = "running"
  /\ calls[batch.call].pc \in {"resolved", "rejected"}
  /\ IF calls[batch.call].pc = "rejected"
     THEN /\ batch' = [batch EXCEPT !.pc = "rejected"]
          /\ UNCHANGED <<calls, loaderVars, processor, fx, page, linear, run, preview, handed>>
     ELSE LET item == batch.images[batch.i + 1]
              b == [batch EXCEPT
                      !.results = <<[filename |-> item.filename,
                                     imageData |-> calls[batch.call].result]>> \o batch.results,
                      !.i = batch.i + 1]
          IN IF b.i < Len(b.images)
             THEN batchIteration(b)
             ELSE /\ batch' = [b EXCEPT !.pc = "resolved", !.returned = b.results]
                  /\ UNCHANGED <<calls, loaderVars, processor, fx, page, linear, run, preview, handed>>

\* `await this.process(...)` resumes: push the pair and go on, or rethrow
BatchResume ==
  /\ batch.pc = "running"
  /\ calls[batch.call].pc \in {"resolved", "rejected"}
  /\ IF calls[batch.call].pc = "rejected"
     THEN /\ batch' = [batch EXCEPT !.pc = "rejected"]
          /\ UNCHANGED <<calls, loaderVars, processor, fx, page, linear, run, preview, handed>>
     ELSE LET item == batch.images[batch.i + 1]
              b == [batch EXCEPT
                      !.results = Append(batch.results,
                          [filename |-> item.filename, imageData |-> calls[batch.call].result]),
                      !.i = batch.i + 1]
          IN IF b.i < Len(b.images)
             THEN batchIteration(b)
             ELSE /\ batch' = [b EXCEPT !.pc = "resolved", !.returned = b.results]
                  /\ UNCHANGED <<calls, loaderVars, processor, fx, page, linear, run, preview, handed>>

\* ---------------------------------------------------------------------
\* Specifications
\* ---------------------------------------------------------------------
\* the steps of the loader and of the process() invocations in flight
EngineStep ==
  \/ \E ok \in BOOLEAN : InitFetch(ok)
  \/ \E ok \in BOOLEAN : InitArrayBuffer(ok)
  \/ \E ok \in BOOLEAN : InitInstantiate(ok)
  \/ InitThen
  \/ \E c \in 1..Len(calls), trap \in BOOLEAN, oom \in BOOLEAN : ProcessSelect(c, trap, oom)
  \/ \E c \in 1..Len(calls) : ProcessJsSettled(c)

\* callers invoking process() directly, any number of calls in flight
NextSelector ==
  \/ EngineStep
  \/ \E img \in CallImages, s \in CallSettings : Process(img, s)

SpecSelector == Init /\ [][NextSelector]_vars

\* one processBatch() over the engine
NextBatch ==
  \/ EngineStep
  \/ \E imgs \in SeqsUpTo(BatchItems, MaxBatch), s \in CallSettings : ProcessBatch(imgs, s)
  \/ BatchResume

SpecBatch == Init /\ [][NextBatch]_vars

\* ---------------------------------------------------------------------
\* Properties of the selector (SpecSelector)
\* ---------------------------------------------------------------------
Started == 1..Len(calls)
Selected(c) == calls[c].useWasm # "unset"

\* the fast path failed in call c: processWasm threw, or the module is not there
FastPathFailed(c) == calls[c].wasm = "threw" \/ calls[c].useWasm = "no"

\* C1 as stated: whenever the fast path fails in a call - processWasm throws or
\* the module failed to load - the next process() call attempts the fast path again.
C1_NextCallRetriesFastPath ==
  \A c \in Started :
    (FastPathFailed(c) /\ c + 1 \in Started /\ Selected(c + 1)) => calls[c + 1].wasm # "none"

\* C1 amended: a call whose processWasm throws runs processJs in that same call
\* and every later call attempts the fast path again; a call that finds the
\* module not loaded runs processJs too, but the failed load is latched: no
\* later call attempts the fast path, and initWasm is not invoked a second time.
C1_FallbackPerCallLoadLatched ==
  /\ initCalls <= 1
  /\ \A c \in Started :
       /\ calls[c].wasm = "threw" =>
            /\ calls[c].js # "none"
            /\ calls[c].pc = "resolved" => calls[c].result.by = "processJs"
            /\ \A d \in Started : (d > c /\ Selected(d)) => calls[d].wasm # "none"
       /\ calls[c].useWasm = "no" =>
            /\ calls[c].js # "none"
            /\ calls[c].pc = "resolved" => calls[c].result.by = "processJs"
            /\ \A d \in Started : (d > c /\ Selected(d)) =>
                   calls[d].useWasm = "no" /\ calls[d].wasm = "none"

\* a call fell back to processJs and the call after it ran on the fast path
C1_Witness ==
  \E c \in Started :
    /\ calls[c].wasm = "threw" /\ calls[c].pc = "resolved"
    /\ calls[c].result.by = "processJs"
    /\ c + 1 \in Started /\ calls[c + 1].wasm = "returned"

\* C2: a throw of processWasm never reaches the caller: when processJs then
\* succeeds, process() resolves with what processJs computes from the image and
\* settings the caller passed, the caller's buffer is as it was passed, and
\* process() rejects only when processJs rejected.
C2_FastPathFailureNotSurfaced ==
  \A c \in Started :
    /\ (calls[c].wasm = "threw" /\ calls[c].js = "resolved") =>
          /\ calls[c].pc # "rejected"
          /\ calls[c].imageData = calls[c].arg
          /\ calls[c].result =
               processJs(calls[c].proc, calls[c].arg, calls[c].settings, FALSE).result
    /\ calls[c].pc = "rejected" => calls[c].js = "rejected"

\* the panorama could not be given memory by pixelate's wrapper (grow past
\* 1024 pages) and the call resolved with the managed result
C2_Witness ==
  \E c \in Started :
    /\ calls[c].proc = "pixelate" /\ calls[c].arg = WideImage
    /\ calls[c].wasm = "threw" /\ calls[c].pc = "resolved"
    /\ calls[c].result.by = "processJs" /\ calls[c].result.image = WideImage

\* ---------------------------------------------------------------------
\* Properties of the batch (SpecBatch)
\* ---------------------------------------------------------------------
BatchCalls == { c \in Started : calls[c].owner = "batch" }
\* the process() invocation made for item n
batchCall(n) == CHOOSE c \in BatchCalls : Cardinality({ d \in BatchCalls : d < c }) = n - 1
BatchTotal == Len(batch.images)

\* C3: processBatch does not catch: when process() rejects for item k the batch
\* rejects with it, onProgress has been called exactly k times, process() has
\* been invoked for no item after k, and no result list is returned; a batch
\* never resolves past a rejected item.
C3_BatchAbortsOnRejection ==
  /\ batch.pc = "rejected" =>
       /\ calls[batch.call].pc = "rejected"
       /\ batch.call = batchCall(batch.i + 1)
       /\ Len(batch.progress) = batch.i + 1
       /\ Cardinality(BatchCalls) = batch.i + 1
       /\ batch.returned = <<>>
  /\ batch.pc = "resolved" => \A c \in BatchCalls : calls[c].pc = "resolved"

\* item 2 of a batch of 3 was rejected
C3_Witness ==
  /\ batch.pc = "rejected" /\ BatchTotal = 3 /\ batch.i + 1 = 2
  /\ calls[batch.call].js = "rejected"

\* C4: onProgress is called once per item with current = 1..N in order,
\* total = N and the item's filename, each time together with the start of
\* that item's process() and only after the process() of the item before it
\* has resolved; at most one process() of the batch is in flight.
C4_ProgressSequential ==
  /\ Len(batch.progress) = Cardinality(BatchCalls)
  /\ \A n \in 1..Len(batch.progress) :
       /\ batch.progress[n] =
            [current |-> n, total |-> BatchTotal, filename |-> batch.images[n].filename]
       /\ calls[batchCall(n)].arg = batch.images[n].imageData
       /\ n < Len(batch.progress) => calls[batchCall(n)].pc = "resolved"
  /\ Cardinality({ c \in BatchCalls : calls[c].pc \in {"awaitLoad", "awaitJs"} }) <= 1
  /\ batch.pc = "resolved" => Len(batch.progress) = BatchTotal

\* a batch of 3 resolved after 3 progress reports
C4_Witness ==
  /\ batch.pc = "resolved" /\ BatchTotal = 3
  /\ Len(batch.progress) = 3 /\ batch.progress[3].current = 3

\* C5: the list processBatch resolves with has one entry per item, in input
\* order, entry n carrying item n's filename and the image process() returned
\* for item n's imageData.
C5_ResultsMatchInputs ==
  batch.pc = "resolved" =>
    /\ Len(batch.returned) = BatchTotal
    /\ \A n \in 1..BatchTotal :
         /\ batch.returned[n].filename = batch.images[n].filename
         /\ batch.returned[n].imageData = calls[batchCall(n)].result
         /\ batch.returned[n].imageData.by # "none"
         /\ batch.returned[n].imageData.image = batch.images[n].imageData

\* a resolved batch whose first two items differ in filename and image
C5_Witness ==
  /\ batch.pc = "resolved" /\ BatchTotal >= 2
  /\ batch.images[1].filename # batch.images[2].filename
  /\ batch.returned[1].imageData.image # batch.returned[2].imageData.image

\* ---------------------------------------------------------------------
\* The effects on pixels: inputs
\* ---------------------------------------------------------------------
\* what is called on an image: a processor, or one of the wrappers of the
\* library that no processor calls
Wrappers == {"wasmGrayscale", "wasmPixelate", "wasmHalftone"}
Effects == Processors \cup {"halftone"} \cup Wrappers

\* transparent black, white, black, a faint orange of alpha 5, mid grey
Pixels ==
  << <<0, 0, 0, 0>>, <<255, 255, 255, 255>>, <<0, 0, 0, 255>>,
     <<200, 100, 50, 5>>, <<128, 128, 128, 255>> >>

\* HalftoneProcessor is followed on the first three: the dot radii are then
\* fractions of small denominator.  wasmGrayscale is followed on the blue of
\* COLORS as well, whose luminosity of 121.881 tells truncation from rounding
FxPixels(proc) ==
  IF proc = "halftone" THEN SubSeq(Pixels, 1, 3)
  ELSE IF proc = "wasmGrayscale" THEN Append(Pixels, COLORS["BLUE"])
  ELSE Pixels

\* the width x height image whose pixel (x, y) is pixels[(s + a*x + b*y) mod Len(pixels)]
PatternImage(pixels, width, height, s, a, b) ==
  LET pixelOf(x, y) == pixels[((s + a * x + b * y) % Len(pixels)) + 1]
  IN ImageData(Filled(width * height * 4, width, pixelOf), width, height)

\* Pixelate is followed on images wider than its smallest block
FxWidths(proc) ==
  IF proc \in {"pixelate", "wasmPixelate"} THEN 1..MaxWide
  ELSE IF proc = "halftone" THEN 1..MaxTone
  ELSE 1..MaxSide

\* the rotated grid of HalftoneProcessor has a cell centred in the image from
\* 3 pixels on
FxHeights(proc) == IF proc = "halftone" THEN 1..MaxTone ELSE 1..MaxSide

\* the halftones are followed on square images of a single colour as well
SolidImages(proc) ==
  IF proc \in {"halftone", "wasmHalftone"}
  THEN { PatternImage(FxPixels(proc), MaxSolid, MaxSolid, s, 0, 0) :
           s \in 0..(Len(FxPixels(proc)) - 1) }
  ELSE {}

FxImages(proc) ==
  { PatternImage(FxPixels(proc), w, h, s, a, b) :
      w \in FxWidths(proc), h \in FxHeights(proc), s \in 0..(Len(FxPixels(proc)) - 1),
      a \in 0..2, b \in 0..1 }
    \cup SolidImages(proc)

\* settings maps of the dithering processor, without inputResolution.  The
\* brightness and contrast are ones for which no adjusted channel falls on
\* a rounding boundary of the code's floating-point arithmetic.
DitheringBases ==
  { [grainSize |-> 1],
    [grainSize |-> 1, unknown |-> 1],
    [palette |-> "WHITE-ON-TRANSPARENT"],
    [grainSize |-> 1, palette |-> "WHITE-ON-TRANSPARENT"],
    [grainSize |-> 1, palette |-> "WHITE-ON-TRANSPARENT", filter |-> "none"],
    [grainSize |-> 1, palette |-> "WHITE-ON-TRANSPARENT", steps |-> 0],
    [grainSize |-> 1, palette |-> "WHITE-ON-TRANSPARENT", steps |-> 1],
    [grainSize |-> 1, palette |-> "WHITE-ON-TRANSPARENT", steps |-> 12],
    [grainSize |-> 1, palette |-> "WHITE-ON-TRANSPARENT", brightness |-> 5],
    [grainSize |-> 1, filter |-> "none", brightness |-> 5, contrast |-> 50],
    [grainSize |-> 1, palette |-> "WHITE-ON-TRANSPARENT", filter |-> "none", brightness |-> 100] }

\* inputResolution left out (the 800 of the code applies) or set to 1..MaxSide
DitheringSettings ==
  DitheringBases \cup
  { [inputResolution |-> r] @@ base : r \in 1..MaxSide, base \in DitheringBases }

\* colorLevels for which 255 / (colorLevels - 1) is a whole number
PixelateSettings ==
  { [unknown |-> 1],
    [blockSize |-> 2],
    [blockSize |-> 0],
    [blockSize |-> 33],
    [blockSize |-> 1, colorLevels |-> 2],
    [blockSize |-> 2, colorLevels |-> 4],
    [blockSize |-> 3, colorLevels |-> 300] }

HalftoneSettings ==
  { [unknown |-> 1],
    [dotSize |-> 2, spacing |-> 3],
    [dotSize |-> 2, spacing |-> 3, angle |-> 0],
    [dotSize |-> 4, spacing |-> 4, shape |-> "circle"],
    [dotSize |-> 4, spacing |-> 3, shape |-> "square"],
    [dotSize |-> 3, spacing |-> 4, shape |-> "diamond", angle |-> 90],
    [dotSize |-> 4, spacing |-> 3, color |-> "WHITE", background |-> "TRANSPARENT", angle |-> 90],
    [dotSize |-> 2, spacing |-> 3, color |-> "BLUE", background |-> "BLACK"] }

\* parameters of the wrappers
WasmPixelateParams == { [blockSize |-> 1], [blockSize |-> 2] }

WasmHalftoneParams ==
  { [dotSize |-> 2, spacing |-> 1, dotColor |-> COLORS["BLACK"], bgColor |-> COLORS["WHITE"]],
    [dotSize |-> 4, spacing |-> 2, dotColor |-> COLORS["BLACK"], bgColor |-> <<0, 0, 0, 0>>],
    [dotSize |-> 3, spacing |-> 3, dotColor |-> COLORS["BLUE"], bgColor |-> COLORS["WHITE"]],
    [dotSize |-> 4, spacing |-> 4, dotColor |-> COLORS["BLACK"], bgColor |-> COLORS["WHITE"]] }

FxSettings(proc) ==
  CASE proc = "dithering" -> DitheringSettings
    [] proc = "pixelate" -> PixelateSettings
    [] proc = "halftone" -> HalftoneSettings
    [] proc = "wasmPixelate" -> WasmPixelateParams
    [] proc = "wasmHalftone" -> WasmHalftoneParams
    [] proc = "wasmGrayscale" -> { [unknown |-> 1] }

\* base_opacity: fully transparent, the 60 of the presets, and the default
BaseOpacities == {0, 60, 100}

\* the base settings of the page when an image is processed
PageBaseSettings ==
  { [base_opacity |-> o, keep_original_resolution |-> FALSE] : o \in BaseOpacities }
    \cup { [base_opacity |-> o, keep_original_resolution |-> TRUE] : o \in {60, 100} }

\* the pixels are computed when the working image is at most MaxSide high;
\* of the 800-line default only the sizes are followed
Computable(proc, imageData, settings) ==
  proc = "dithering" => outputSize(proc, imageData, settings).height <= MaxSide

\* ---------------------------------------------------------------------
\* The effects on pixels: one image through the fast path and the managed
\* path of an effect, and the result through applyBaseSettings
\* ---------------------------------------------------------------------
ProcessWasmPixels(proc, imageData, settings) ==
  CASE proc = "dithering" -> DitheringProcessWasm(imageData, settings)
    [] proc = "pixelate" -> PixelateProcessWasm(imageData, settings)
    [] proc = "wasmGrayscale" -> [out |-> wasmGrayscale(imageData)]
    [] proc = "wasmPixelate" -> [out |-> wasmPixelate(imageData, settings.blockSize)]
    [] proc = "wasmHalftone" -> [out |-> wasmHalftone(imageData, settings)]

ProcessJsPixels(proc, imageData, settings) ==
  CASE proc = "dithering" -> DitheringProcessJs(imageData, settings)
    [] proc = "pixelate" -> PixelateProcessJs(imageData, settings)
    [] proc = "halftone" -> HalftoneProcess(imageData, settings)

\* what a path returned: the size, and the stages when the pixels are computed
Returned(size, stages) == <<[size |-> size, stages |-> stages]>>

\* the images a path has returned
ReturnedImages(returned) ==
  { returned[i].stages[j].out : <<i, j>> \in { <<i, j>> \in (1..Len(returned)) \X {1} :
                                               returned[i].stages # <<>> } }

InitFx ==
  /\ page = IdlePage
  /\ linear = ZeroedLinear
  /\ run = IdleRun
  /\ preview = IdlePreview
  /\ handed = NothingHanded
  /\ wasmInitialized = FALSE
  /\ wasmInitPromise = "null"
  /\ wasmInstance = FALSE
  /\ wasmMemory = 0
  /\ initPc = "idle"
  /\ initCalls = 0
  /\ calls = <<>>
  /\ batch = IdleBatch
  /\ processor \in Effects
  /\ fx \in { [image |-> i, settings |-> s, wasm |-> <<>>, js |-> <<>>, base |-> <<>>] :
                i \in FxImages(processor), s \in FxSettings(processor) }

\* processWasm(image, settings) of a processor, or the wrapper called
RunWasm ==
  /\ processor # "halftone"
  /\ fx.wasm = <<>>
  /\ fx' = [fx EXCEPT !.wasm =
       Returned(outputSize(processor, fx.image, fx.settings),
                IF Computable(processor, fx.image, fx.settings)
                THEN <<ProcessWasmPixels(processor, fx.image, fx.settings)>> ELSE <<>>)]
  /\ UNCHANGED <<loaderVars, processor, calls, batch, page, linear, run, preview, handed>>

\* wasmGrayscale is called on the image wasmGrayscale returned
RunWasmAgain ==
  /\ processor = "wasmGrayscale"
  /\ Len(fx.wasm) = 1
  /\ fx' = [fx EXCEPT !.wasm =
       fx.wasm \o Returned(fx.wasm[1].size,
                           <<[out |-> wasmGrayscale(fx.wasm[1].stages[1].out)]>>)]
  /\ UNCHANGED <<loaderVars, processor, calls, batch, page, linear, run, preview, handed>>

\* processJs(image, settings), or process(image, settings) of HalftoneProcessor
RunJs ==
  /\ processor \in Processors \cup {"halftone"}
  /\ fx.js = <<>>
  /\ fx' = [fx EXCEPT !.js =
       Returned(outputSize(processor, fx.image, fx.settings),
                IF Computable(processor, fx.image, fx.settings)
                THEN <<ProcessJsPixels(processor, fx.image, fx.settings)>> ELSE <<>>)]
  /\ UNCHANGED <<loaderVars, processor, calls, batch, page, linear, run, preview, handed>>

\* the tail of handleProcess (of the frame loop of processVideo) on a returned
\* image: applyBaseSettings, then scaleImageData when the flag asks for it
ApplyBase(baseSettings, canvas2d) ==
  /\ fx.base = <<>>
  /\ \E processed \in ReturnedImages(fx.wasm) \cup ReturnedImages(fx.js) :
       LET after == applyBaseSettingsBuffers(fx.image, processed, baseSettings.base_opacity)
       IN /\ (~canvas2d => scalesBack(fx.image, after.result, baseSettings))
          /\ fx' = [fx EXCEPT !.base =
                <<[base_opacity |-> baseSettings.base_opacity,
                   keep_original_resolution |-> baseSettings.keep_original_resolution,
                   canvas2d |-> canvas2d,
                   passed |-> processed,
                   original |-> after.original,
                   processed |-> after.processed,
                   result |-> after.result,
                   final |-> finalImage(fx.image, processed, baseSettings, canvas2d)]>>]
  /\ UNCHANGED <<loaderVars, processor, calls, batch, page, linear, run, preview, handed>>

NextFx ==
  \/ RunWasm
  \/ RunWasmAgain
  \/ RunJs
  \/ \E baseSettings \in PageBaseSettings, canvas2d \in BOOLEAN : ApplyBase(baseSettings, canvas2d)

SpecFx == InitFx /\ [][NextFx]_vars

\* ---------------------------------------------------------------------
\* Properties of the effects on pixels
\* ---------------------------------------------------------------------
\* what the two paths have returned so far
Returns == { fx.wasm[i] : i \in 1..Len(fx.wasm) } \cup { fx.js[i] : i \in 1..Len(fx.js) }

\* every image a step has produced: the stages of both paths and the image
\* applyBaseSettings left
ProducedImages ==
  UNION { { r.stages[1][k] : k \in DOMAIN r.stages[1] } : r \in { r \in Returns : r.stages # <<>> } }
    \cup { fx.base[i].result : i \in 1..Len(fx.base) }
    \cup { fx.base[i].final : i \in 1..Len(fx.base) }

\* C6: every image produced by a step (processWasm and processJs of a
\* processor, the wasm* wrappers, the bilinear and the nearest resize of
\* Dithering, applyBaseSettings) has a pixel array of exactly
\* width * height * 4 bytes for the width and height it is returned with,
\* and these are positive.
C6_PixelBufferInvariant ==
  \A image \in ProducedImages :
    /\ image.width >= 1
    /\ image.height >= 1
    /\ Len(image.data) = image.width * image.height * 4

\* Dithering has gone down both paths through a bilinear resize and a grain
\* downscale that both change the size, and the result through an opacity
\* below 100.
C6_Witness ==
  /\ processor = "dithering"
  /\ fx.wasm # <<>> /\ fx.wasm[1].stages # <<>>
  /\ fx.js # <<>> /\ fx.js[1].stages # <<>>
  /\ fx.js[1].stages[1].resized.width # fx.image.width
  /\ fx.js[1].stages[1].entering.height # fx.js[1].stages[1].resized.height
  /\ fx.base # <<>> /\ fx.base[1].base_opacity = 60

\* the inputResolution prepareData resolves: absent or 0 gives 800
ResolvedInputResolution(settings) ==
  IF "inputResolution" \in DOMAIN settings /\ settings.inputResolution # 0
  THEN settings.inputResolution ELSE 800

\* C7 as stated: whenever the settings carry no resize setting, an effect's
\* output has the width and the height of its input, on either path.
C7_DimensionsPreserved ==
  \A r \in Returns :
    "inputResolution" \notin DOMAIN fx.settings =>
      r.size = [width |-> fx.image.width, height |-> fx.image.height]

\* C7 amended: the outputs of Pixelate, Halftone and Grayscale have the
\* input's width and height.  The output of Dithering, on either path, is as
\* high as the resolved inputResolution (800 when the setting is absent or 0)
\* and max(1, round(width * inputResolution / height)) wide, whatever the
\* grain; it has the input's size when the input is already that high.
C7_DimensionsByEffect ==
  \A r \in Returns :
    /\ processor # "dithering" =>
         r.size = [width |-> fx.image.width, height |-> fx.image.height]
    /\ processor = "dithering" =>
         LET target == ResolvedInputResolution(fx.settings)
         IN /\ r.size.height = target
            /\ r.size.width =
                 IF target = fx.image.height THEN fx.image.width
                 ELSE Max(1, (2 * fx.image.width * target + fx.image.height)
                               \div (2 * fx.image.height))
    /\ r.stages # <<>> =>
         /\ r.stages[1].out.width = r.size.width
         /\ r.stages[1].out.height = r.size.height

\* Dithering has returned on both paths for an image that an explicit
\* inputResolution resizes and the default grain of 2 downscales in between.
C7_Witness ==
  /\ processor = "dithering"
  /\ fx.wasm # <<>> /\ fx.wasm[1].stages # <<>>
  /\ fx.js # <<>> /\ fx.js[1].stages # <<>>
  /\ "inputResolution" \in DOMAIN fx.settings
  /\ "grainSize" \notin DOMAIN fx.settings
  /\ fx.settings.inputResolution # fx.image.height
  /\ fx.js[1].stages[1].entering.height # fx.js[1].size.height
  /\ fx.js[1].size # [width |-> fx.image.width, height |-> fx.image.height]

\* C8 as stated: for Dithering and Pixelate, processWasm and processJs
\* return the same image, size and bytes, for the same image and settings.
C8_PathsReturnSameImage ==
  (/\ processor \in Processors
   /\ fx.wasm # <<>> /\ fx.wasm[1].stages # <<>>
   /\ fx.js # <<>> /\ fx.js[1].stages # <<>>)
    => fx.wasm[1].stages[1].out = fx.js[1].stages[1].out

\* the pixels of alpha below 10 that entered the dither step of a path
\* number the same bytes in what the step left
GuardHolds(stage) ==
  \A p \in 0..(stage.entering.width * stage.entering.height - 1) :
    PixelAt(stage.entering.data, 4 * p)[4] < 10 =>
      PixelAt(stage.leaving.data, 4 * p) = PixelAt(stage.entering.data, 4 * p)

\* C9 as stated: a pixel of alpha < 10 entering ordered dither leaves it
\* with the same R, G, B and A, on the fast path and on the managed path.
C9_TransparencyGuard ==
  /\ (processor = "dithering" /\ fx.wasm # <<>> /\ fx.wasm[1].stages # <<>>)
       => GuardHolds(fx.wasm[1].stages[1])
  /\ (/\ processor = "dithering" /\ fx.js # <<>> /\ fx.js[1].stages # <<>>
      /\ StrOr(fx.settings, "filter", "ordered") = "ordered")
       => GuardHolds(fx.js[1].stages[1])

\* the pixels of an image
PixelsOf(image) == { PixelAt(image.data, 4 * p) : p \in 0..(image.width * image.height - 1) }

PaletteOf(settings) == { paletteColorsOf(settings)[i] : i \in 1..Len(paletteColorsOf(settings)) }

LevelsOf(settings) == Max(1, 13 - NumOr(settings, "steps", 11))

WithoutAdjustments(settings) ==
  [k \in DOMAIN settings \ {"brightness", "contrast", "steps"} |-> settings[k]]

\* the palette entry nearest, over R, G and B, to every pixel of the image
NearestOfOriginal(image, palette) ==
  LET nearest(idx) ==
        palette[findClosestColor(image.data[idx + 1], image.data[idx + 2],
                                 image.data[idx + 3], palette)]
  IN ImageData(Mapped(image.data, nearest), image.width, image.height)

\* C11 as stated: with filter "none" neither the brightness/contrast
\* adjustment nor the Bayer offset is applied: on either path every pixel the
\* dither step leaves is the palette entry nearest to the colour the pixel had
\* in the working image, and the returned image is the one returned for the
\* same settings without brightness, contrast and steps.
C11_FilterNoneSkipsAdjustments ==
  (processor = "dithering" /\ StrOr(fx.settings, "filter", "ordered") = "none") =>
    LET plain == WithoutAdjustments(fx.settings)
        working == prepareData(fx.image, fx.settings).workingData
        nearest == NearestOfOriginal(working, paletteColorsOf(fx.settings))
    IN /\ (fx.wasm # <<>> /\ fx.wasm[1].stages # <<>>) =>
            /\ fx.wasm[1].stages[1].leaving = nearest
            /\ fx.wasm[1].stages[1].out = DitheringProcessWasm(fx.image, plain).out
       /\ (fx.js # <<>> /\ fx.js[1].stages # <<>>) =>
            /\ fx.js[1].stages[1].leaving = nearest
            /\ fx.js[1].stages[1].out = DitheringProcessJs(fx.image, plain).out

\* ---------------------------------------------------------------------
\* Pixelate: block clipping
\* ---------------------------------------------------------------------
\* the block size an effect works with, and whether it quantizes the average
BlockSizeUsed == IF processor = "pixelate" THEN blockSizeOf(fx.settings) ELSE fx.settings.blockSize
Quantizes == processor = "pixelate" /\ colorLevelsOf(fx.settings) < 256

\* every pixel of the output carries the colour of its clipped block: the
\* block's pixels all carry it and, where the average is not quantized, each
\* channel is within one of the sum over the block divided by its size
ClippedBlocksAveraged(out) ==
  \A x \in 0..(fx.image.width - 1), y \in 0..(fx.image.height - 1) :
    LET bs == BlockSizeUsed
        offsets == blockOffsets(fx.image.width, fx.image.height,
                                (x \div bs) * bs, (y \div bs) * bs, bs)
        colour == PixelAt(out.data, Idx(fx.image.width, x, y))
    IN /\ \A o \in offsets : PixelAt(out.data, o) = colour
       /\ ~Quantizes =>
            \A c \in 1..4 :
              Abs(Cardinality(offsets) * colour[c] - SumOver(fx.image.data, offsets, c))
                < Cardinality(offsets)

\* C12 as stated: on the fast and on the managed path, pixelate works on
\* blockSize x blockSize blocks aligned to the top-left corner with the last
\* column and row of blocks clipped to the image; the colour written to every
\* pixel of a block is the average of exactly the pixels of that clipped block.
C12_BlockClipping ==
  \A r \in Returns :
    (processor \in {"pixelate", "wasmPixelate"} /\ r.stages # <<>>) =>
      ClippedBlocksAveraged(r.stages[1].out)

\* ---------------------------------------------------------------------
\* Grayscale
\* ---------------------------------------------------------------------
\* the image the i-th call of the wrapper was given
GrayscaleInput(i) == IF i = 1 THEN fx.image ELSE fx.wasm[i - 1].stages[1].out

\* C13: every pixel wasmGrayscale returns has R = G = B = gray, where gray is
\* the whole part of (299 R + 587 G + 114 B) / 1000 of the input pixel
\* (truncated, not rounded), its alpha is the input pixel's alpha, and the
\* returned image has the width and height of the input.
C13_GrayscaleLuminosity ==
  processor = "wasmGrayscale" =>
    \A i \in 1..Len(fx.wasm) :
      LET in == GrayscaleInput(i)
          out == fx.wasm[i].stages[1].out
      IN /\ out.width = in.width
         /\ out.height = in.height
         /\ Len(out.data) = Len(in.data)
         /\ \A p \in 0..(in.width * in.height - 1) :
              LET px == PixelAt(in.data, 4 * p)
                  o == PixelAt(out.data, 4 * p)
                  luminosity == 299 * px[1] + 587 * px[2] + 114 * px[3]
              IN /\ o[1] = o[2] /\ o[2] = o[3]
                 /\ 1000 * o[1] <= luminosity
                 /\ luminosity < 1000 * (o[1] + 1)
                 /\ o[4] = px[4]

\* wasmGrayscale has returned for an image holding the blue pixel, which
\* rounding would take to 122, and a coloured pixel of alpha 5
C13_Witness ==
  /\ processor = "wasmGrayscale"
  /\ fx.wasm # <<>>
  /\ COLORS["BLUE"] \in PixelsOf(fx.image)
  /\ <<200, 100, 50, 5>> \in PixelsOf(fx.image)
  /\ <<121, 121, 121, 255>> \in PixelsOf(fx.wasm[1].stages[1].out)
  /\ <<124, 124, 124, 5>> \in PixelsOf(fx.wasm[1].stages[1].out)

\* C14: wasmGrayscale of an image wasmGrayscale returned is that image; a
\* gray level g is its own luminosity for every g in 0..255; an image whose
\* pixels all have R = G = B is returned as it was passed.
C14_GrayscaleIdempotent ==
  /\ \A g \in 0..255 : rgbToGray(g, g, g) = g
  /\ processor = "wasmGrayscale" =>
       /\ Len(fx.wasm) = 2 => fx.wasm[2].stages[1].out = fx.wasm[1].stages[1].out
       /\ (fx.wasm # <<>> /\ \A px \in PixelsOf(fx.image) : px[1] = px[2] /\ px[2] = px[3])
            => fx.wasm[1].stages[1].out = fx.image

\* wasmGrayscale has been called on its own result for an image of more
\* than one colour that it had changed
C14_Witness ==
  /\ processor = "wasmGrayscale"
  /\ Len(fx.wasm) = 2
  /\ fx.wasm[1].stages[1].out # fx.image
  /\ Cardinality(PixelsOf(fx.image)) > 1

SameSize(a, b) == a.width = b.width /\ a.height = b.height

PageProcessors == {"dithering", "pixelate", "halftone"}

\* readonly presets; baseSettings is << >> where the preset declares none
presets(proc) ==
  CASE proc = "dithering" ->
         << [id |-> "blue-default",
             baseSettings |-> <<[base_opacity |-> 60]>>,
             settings |-> [palette |-> "BLUE-ON-TRANSPARENT", filter |-> "ordered", steps |-> 11,
                           grainSize |-> 2, brightness |-> 0, contrast |-> 0,
                           inputResolution |-> 800]],
            [id |-> "white-default",
             baseSettings |-> <<[base_opacity |-> 60]>>,
             settings |-> [palette |-> "WHITE-ON-TRANSPARENT", filter |-> "ordered", steps |-> 11,
                           grainSize |-> 2, brightness |-> 0, contrast |-> 0,
                           inputResolution |-> 800]] >>
    [] proc = "pixelate" ->
         << [id |-> "retro-8bit", baseSettings |-> <<>>,
             settings |-> [blockSize |-> 8, colorLevels |-> 8]],
            [id |-> "mosaic", baseSettings |-> <<>>,
             settings |-> [blockSize |-> 16, colorLevels |-> 256]],
            [id |-> "minimal", baseSettings |-> <<>>,
             settings |-> [blockSize |-> 24, colorLevels |-> 4]] >>
    [] proc = "halftone" ->
         << [id |-> "newspaper", baseSettings |-> <<>>,
             settings |-> [dotSize |-> 6, spacing |-> 8, shape |-> "circle", color |-> "BLACK",
                           background |-> "WHITE", angle |-> 45]],
            [id |-> "pop-art", baseSettings |-> <<>>,
             settings |-> [dotSize |-> 10, spacing |-> 12, shape |-> "circle", color |-> "BLUE",
                           background |-> "WHITE", angle |-> 0]],
            [id |-> "fine-print", baseSettings |-> <<>>,
             settings |-> [dotSize |-> 3, spacing |-> 4, shape |-> "circle", color |-> "BLACK",
                           background |-> "WHITE", angle |-> 30]] >>

\* readonly settings: the range definitions with default, min and max ...
rangeSettings(proc) ==
  CASE proc = "dithering" ->
         [steps |-> [default |-> 11, min |-> 0, max |-> 12],
          grainSize |-> [default |-> 2, min |-> 0, max |-> 8],
          brightness |-> [default |-> 0, min |-> -100, max |-> 100],
          contrast |-> [default |-> 0, min |-> -100, max |-> 100],
          inputResolution |-> [default |-> 800, min |-> 0, max |-> 2000]]
    [] proc = "pixelate" ->
         [blockSize |-> [default |-> 8, min |-> 2, max |-> 32],
          colorLevels |-> [default |-> 256, min |-> 2, max |-> 256]]
    [] proc = "halftone" ->
         [dotSize |-> [default |-> 6, min |-> 2, max |-> 20],
          spacing |-> [default |-> 8, min |-> 3, max |-> 24],
          angle |-> [default |-> 45, min |-> 0, max |-> 90]]

\* ... and the select definitions with their default
selectSettings(proc) ==
  CASE proc = "dithering" ->
         [palette |-> [default |-> "BLUE-ON-TRANSPARENT"], filter |-> [default |-> "ordered"]]
    [] proc = "pixelate" -> << >>
    [] proc = "halftone" ->
         [shape |-> [default |-> "circle"], color |-> [default |-> "BLACK"],
          background |-> [default |-> "WHITE"]]

\* a getDefaultSettings that answers with the settings of the first preset
getDefaultSettingsOfPreset(proc) == presets(proc)[1].settings

\* getDefaultSettings(): every declared id mapped to its default
getDefaultSettings(proc) ==
  [id \in DOMAIN rangeSettings(proc) \cup DOMAIN selectSettings(proc) |->
     IF id \in DOMAIN rangeSettings(proc) THEN rangeSettings(proc)[id].default
     ELSE selectSettings(proc)[id].default]

\* getPreset(presetId): presets.find(...), << >> for undefined
getPreset(proc, presetId) ==
  LET found == { i \in 1..Len(presets(proc)) : presets(proc)[i].id = presetId }
  IN IF found = {} THEN << >>
     ELSE <<presets(proc)[CHOOSE i \in found : \A j \in found : i <= j]>>

DEFAULT_BASE_SETTINGS == [base_opacity |-> 100, keep_original_resolution |-> FALSE]
getDefaultBaseSettings == DEFAULT_BASE_SETTINGS

\* ---------------------------------------------------------------------
\* EffectPage: clientLoader, the state hooks and the handlers
\* ---------------------------------------------------------------------
\* clientLoader: the first preset, or the defaults when there is none
clientLoader(proc) ==
  IF Len(presets(proc)) > 0
  THEN [defaultPresetId |-> presets(proc)[1].id,
        defaultSettings |-> presets(proc)[1].settings,
        defaultBaseSettings |-> presets(proc)[1].baseSettings]
  ELSE [defaultPresetId |-> "null",
        defaultSettings |-> getDefaultSettings(proc),
        defaultBaseSettings |-> << >>]

\* what a handler found before it ran
Snapshot == [selectedPreset |-> page.selectedPreset, settings |-> page.settings,
             baseSettings |-> page.baseSettings]

\* the useState initialisers of EffectPage
MountedPage(proc) ==
  LET loaderData == clientLoader(proc)
      mounted == [selectedPreset |-> loaderData.defaultPresetId,
                  settings |-> loaderData.defaultSettings,
                  baseSettings |->
                    IF loaderData.defaultBaseSettings # << >>
                    THEN loaderData.defaultBaseSettings[1] @@ getDefaultBaseSettings
                    ELSE getDefaultBaseSettings]
  IN mounted @@ [last |-> [kind |-> "none"], lastConfig |-> "none", before |-> mounted]

InitPage ==
  /\ wasmInitialized = FALSE
  /\ wasmInitPromise = "null"
  /\ wasmInstance = FALSE
  /\ wasmMemory = 0
  /\ initPc = "idle"
  /\ initCalls = 0
  /\ calls = <<>>
  /\ batch = IdleBatch
  /\ fx = IdleFx
  /\ processor \in PageProcessors
  /\ page = MountedPage(processor)
  /\ linear = ZeroedLinear
  /\ run = IdleRun
  /\ preview = IdlePreview
  /\ handed = NothingHanded

\* the values the controls of the page are moved to
SettingEdits(proc) ==
  CASE proc = "dithering" ->
         { <<"steps", 11>>, <<"steps", 0>>, <<"palette", "WHITE-ON-TRANSPARENT">> }
    [] proc = "pixelate" -> { <<"blockSize", 16>>, <<"colorLevels", 8>>, <<"colorLevels", 256>> }
    [] proc = "halftone" -> { <<"angle", 0>>, <<"angle", 45>>, <<"dotSize", 10>> }

BaseSettingEdits ==
  { <<"base_opacity", 0>>, <<"base_opacity", 100>>,
    <<"keep_original_resolution", TRUE>>, <<"keep_original_resolution", FALSE>> }

PresetIds(proc) == { presets(proc)[i].id : i \in 1..Len(presets(proc)) }

\* handlePresetSelect(presetId)
handlePresetSelect(presetId) ==
  LET preset == getPreset(processor, presetId)
  IN /\ page' = [page EXCEPT
           !.selectedPreset = presetId,
           !.settings = IF preset # << >> THEN preset[1].settings ELSE page.settings,
           !.baseSettings = IF preset # << >> /\ preset[1].baseSettings # << >>
                            THEN preset[1].baseSettings[1] @@ getDefaultBaseSettings
                            ELSE page.baseSettings,
           !.last = [kind |-> "preset", id |-> presetId],
           !.lastConfig = "preset",
           !.before = Snapshot]
     /\ UNCHANGED <<loaderVars, processor, calls, batch, fx, linear, run, preview, handed>>

\* a handler that leaves the preset marker where it is
handleSettingChangeKeepingPreset(id, value) ==
  /\ page' = [page EXCEPT
        !.settings = (id :> value) @@ page.settings,
        !.last = [kind |-> "setting", id |-> id],
        !.lastConfig = "setting",
        !.before = Snapshot]
  /\ UNCHANGED <<loaderVars, processor, calls, batch, fx, linear, run, preview, handed>>

\* handleSettingChange(id, value)
handleSettingChange(id, value) ==
  /\ page' = [page EXCEPT
        !.settings = (id :> value) @@ page.settings,
        !.selectedPreset = "null",
        !.last = [kind |-> "setting", id |-> id],
        !.lastConfig = "setting",
        !.before = Snapshot]
  /\ UNCHANGED <<loaderVars, processor, calls, batch, fx, linear, run, preview, handed>>

\* handleBaseSettingChange(id, value)
handleBaseSettingChange(id, value) ==
  /\ page' = [page EXCEPT
        !.baseSettings = (id :> value) @@ page.baseSettings,
        !.last = [kind |-> "base", id |-> id],
        !.before = Snapshot]
  /\ UNCHANGED <<loaderVars, processor, calls, batch, fx, linear, run, preview, handed>>

NextPage ==
  \/ \E presetId \in PresetIds(processor) : handlePresetSelect(presetId)
  \/ \E edit \in SettingEdits(processor) : handleSettingChange(edit[1], edit[2])
  \/ \E edit \in BaseSettingEdits : handleBaseSettingChange(edit[1], edit[2])

SpecPage == InitPage /\ [][NextPage]_vars

\* ---------------------------------------------------------------------
\* Properties of the effect page (SpecPage)
\* ---------------------------------------------------------------------
\* C17 as stated: selecting a preset makes the preset's settings the
\* settings map and merges the preset's baseSettings over the base settings
\* the page had before the selection, so that every base setting the preset
\* does not name keeps its value; a preset without baseSettings leaves the
\* base settings as they were.
C17_PresetMergesOverCurrent ==
  page.last.kind = "preset" =>
    LET preset == getPreset(processor, page.last.id)[1]
    IN /\ page.settings = preset.settings
       /\ page.baseSettings =
            IF preset.baseSettings # << >>
            THEN preset.baseSettings[1] @@ page.before.baseSettings
            ELSE page.before.baseSettings

\* C18: the preset marker is set exactly when, of the preset selections and
\* the edits of single settings made so far, the latest was a preset selection
\* or none has been made; and whenever the marker names a preset, the
\* settings map is that preset's settings.
C18_PresetOrEdit ==
  /\ page.selectedPreset # "null" <=> page.lastConfig \in {"none", "preset"}
  /\ page.selectedPreset # "null" =>
       /\ getPreset(processor, page.selectedPreset) # << >>
       /\ page.settings = getPreset(processor, page.selectedPreset)[1].settings

\* a preset other than the first has been selected after an edit had
\* cleared the marker and changed the settings map
C18_Witness ==
  /\ page.last.kind = "preset"
  /\ page.before.selectedPreset = "null"
  /\ page.before.settings # page.settings
  /\ page.selectedPreset # clientLoader(processor).defaultPresetId
  /\ page.selectedPreset # "null"

\* ---------------------------------------------------------------------
\* Settings resolution inside process()
\* ---------------------------------------------------------------------
\* the settings map with every declared id: the caller's value where the
\* caller supplied one, the declared default elsewhere; undeclared keys dropped
WithDeclaredDefaults(proc, settings) ==
  [id \in DOMAIN getDefaultSettings(proc) |->
     IF id \in DOMAIN settings THEN settings[id] ELSE getDefaultSettings(proc)[id]]

\* C19: for Dithering, Pixelate and Halftone, on either path, the image
\* returned for a settings map is the image returned for that map with the
\* declared default supplied for every declared id it lacks and with its
\* undeclared keys removed (for the 800-line default of Dithering, of which
\* the pixels are not followed: the same size).  The returns are compared
\* before the post-stage runs, which leaves them as they are.
C19_MissingSettingIsDefault ==
  (processor \in PageProcessors /\ fx.base = <<>>) =>
    LET full == WithDeclaredDefaults(processor, fx.settings)
    IN /\ fx.wasm # <<>> =>
            /\ fx.wasm[1].size = outputSize(processor, fx.image, full)
            /\ fx.wasm[1].stages # <<>> =>
                 fx.wasm[1].stages[1].out = ProcessWasmPixels(processor, fx.image, full).out
       /\ fx.js # <<>> =>
            /\ fx.js[1].size = outputSize(processor, fx.image, full)
            /\ fx.js[1].stages # <<>> =>
                 fx.js[1].stages[1].out = ProcessJsPixels(processor, fx.image, full).out

\* Pixelate has returned on both paths for a settings map that holds an
\* undeclared key and lacks colorLevels, and has changed the image
C19_Witness ==
  /\ processor = "pixelate"
  /\ fx.wasm # <<>> /\ fx.js # <<>>
  /\ "unknown" \in DOMAIN fx.settings
  /\ "colorLevels" \notin DOMAIN fx.settings
  /\ fx.js[1].stages[1].out # fx.image
  /\ fx.wasm[1].stages[1].out # fx.image

\* the values of the range settings as the first lines of the processors
\* compute them from the settings map
resolvedSettings(proc, settings) ==
  CASE proc = "dithering" ->
         [steps |-> NumOr(settings, "steps", DEFAULT_STEPS),
          grainSize |-> Max(1, NumOr(settings, "grainSize", DEFAULT_GRAIN_SIZE)),
          brightness |-> NumOr(settings, "brightness", 0),
          contrast |-> NumOr(settings, "contrast", 0),
          inputResolution |-> NumOr(settings, "inputResolution", DEFAULT_INPUT_RESOLUTION)]
    [] proc = "pixelate" ->
         [blockSize |-> blockSizeOf(settings), colorLevels |-> colorLevelsOf(settings)]
    [] proc = "halftone" ->
         [dotSize |-> Max(2, NumOr(settings, "dotSize", DEFAULT_DOT_SIZE)),
          spacing |-> Max(3, NumOr(settings, "spacing", DEFAULT_SPACING)),
          angle |-> NumOr(settings, "angle", DEFAULT_ANGLE)]

\* the declared range settings the caller supplied within [min, max]
SuppliedInRange(proc, settings) ==
  { id \in DOMAIN rangeSettings(proc) \cap DOMAIN settings :
      /\ settings[id] >= rangeSettings(proc)[id].min
      /\ settings[id] <= rangeSettings(proc)[id].max }

\* C20: when Dithering, Pixelate or Halftone has processed an image, every
\* declared range setting the caller supplied within its declared [min, max]
\* (0 included) is the value the algorithm worked with; in particular the
\* managed path of Dithering with the ordered filter has dithered the
\* adjusted working image with the supplied steps.
C20_SuppliedValueUsed ==
  (processor \in PageProcessors /\ Returns # {}) =>
    /\ \A id \in SuppliedInRange(processor, fx.settings) :
         resolvedSettings(processor, fx.settings)[id] = fx.settings[id]
    /\ ( /\ processor = "dithering"
         /\ fx.js # <<>> /\ fx.js[1].stages # <<>>
         /\ StrOr(fx.settings, "filter", "ordered") = "ordered"
         /\ "steps" \in SuppliedInRange(processor, fx.settings) )
       => fx.js[1].stages[1].leaving =
            applyOrderedDither(fx.js[1].stages[1].entering, fx.settings.steps,
                               paletteColorsOf(fx.settings))

\* the settings map with every supplied range setting brought into its
\* declared [min, max]
ClampedToRange(proc, settings) ==
  [id \in DOMAIN settings |->
     IF id \in DOMAIN rangeSettings(proc)
     THEN clamp(settings[id], rangeSettings(proc)[id].min, rangeSettings(proc)[id].max)
     ELSE settings[id]]

\* C21: when Dithering, Pixelate or Halftone has processed an image, every
\* range setting supplied outside its declared [min, max] was used as the
\* nearest bound, and the managed path of Pixelate returned the image it
\* returns for the map with the values so clamped.
C21_OutOfRangeClamped ==
  (processor \in PageProcessors /\ Returns # {}) =>
    /\ \A id \in (DOMAIN rangeSettings(processor) \cap DOMAIN fx.settings)
                   \ SuppliedInRange(processor, fx.settings) :
         resolvedSettings(processor, fx.settings)[id]
           = ClampedToRange(processor, fx.settings)[id]
    /\ (processor = "pixelate" /\ fx.js # <<>>) =>
         fx.js[1].stages[1].out
           = PixelateProcessJs(fx.image, ClampedToRange(processor, fx.settings)).out

\* ---------------------------------------------------------------------
\* Halftone: the stores of the dot rasterisation
\* ---------------------------------------------------------------------
\* the grid cells of HalftoneProcessor.process whose centre lies in the image,
\* each with its centre and the radius computed for it
halftoneCells(imageData, settings) ==
  LET dotSize == Max(2, NumOr(settings, "dotSize", DEFAULT_DOT_SIZE))
      spacing == Max(3, NumOr(settings, "spacing", DEFAULT_SPACING))
      rot == rotation(NumOr(settings, "angle", DEFAULT_ANGLE))
      width == imageData.width
      height == imageData.height
      indices == gridIndices2(gridSize(width, height, spacing))
  IN { [c |-> c,
        r |-> dotRadius(sampleBrightness(imageData.data, width, height, c, spacing), dotSize)] :
         c \in { c \in { cellCentre(width, height, spacing, rot, gx2, gy2) :
                           gx2 \in indices, gy2 \in indices } :
                    ~outsideImage(width, height, c) } }

\* the cells that reach drawDot: `if (radius < 0.5) continue`
halftoneDots(imageData, settings) ==
  { cell \in halftoneCells(imageData, settings) : ~(2 * cell.r.n < cell.r.d) }

\* pixel coordinates around the image, MaxSide further on every side
Surroundings(imageData) ==
  ((-MaxSide)..(imageData.width - 1 + MaxSide))
    \X ((-MaxSide)..(imageData.height - 1 + MaxSide))

\* the coordinates the drawDot calls of one process() store the dot colour to
halftoneStores(imageData, settings) ==
  { xy \in Surroundings(imageData) :
      \E cell \in halftoneDots(imageData, settings) :
        drawDot(imageData.width, imageData.height, cell.c, cell.r,
                StrOr(settings, "shape", "circle"), xy[1], xy[2]) }

\* the coordinates the kernel halftone stores the dot colour to: the dot of
\* the grid cell at (gx, gy), of radius n / d, within its clipped box
kernelStores(imageData, params) ==
  LET width == imageData.width
      height == imageData.height
      spacing == params.spacing
      cells == { cell \in (0..(width - 1)) \X (0..(height - 1)) :
                   cell[1] % spacing = 0 /\ cell[2] % spacing = 0 }
      offsetsOf(cell) == blockOffsets(width, height, cell[1], cell[2], spacing)
      count(cell) == Cardinality(offsetsOf(cell))
      total(cell) ==
        LET RECURSIVE grays(_)
            grays(offsets) ==
              IF offsets = {} THEN 0
              ELSE LET o == CHOOSE o \in offsets : TRUE
                   IN rgbToGray(imageData.data[o + 1], imageData.data[o + 2],
                                imageData.data[o + 3]) + grays(offsets \ {o})
        IN grays(offsetsOf(cell))
      n(cell) == params.dotSize * (255 * count(cell) - total(cell))
      d(cell) == 510 * count(cell)
      centre2(cell, k) == (2 * cell[k] + spacing) * 255 * count(cell)
      covers(cell, x, y) ==
        /\ ~(2 * n(cell) < d(cell))
        /\ x \in Max(0, Trunc(centre2(cell, 1) - n(cell), d(cell)))
                  ..Min(width - 1, Trunc(centre2(cell, 1) + n(cell), d(cell)))
        /\ y \in Max(0, Trunc(centre2(cell, 2) - n(cell), d(cell)))
                  ..Min(height - 1, Trunc(centre2(cell, 2) + n(cell), d(cell)))
        /\ ((2 * x - 2 * cell[1] - spacing) * (2 * x - 2 * cell[1] - spacing)
             + (2 * y - 2 * cell[2] - spacing) * (2 * y - 2 * cell[2] - spacing))
              * (255 * count(cell)) * (255 * count(cell)) <= n(cell) * n(cell)
  IN { xy \in Surroundings(imageData) : \E cell \in cells : covers(cell, xy[1], xy[2]) }

\* the dot colour and the background colour of a halftone call
halftoneColours(proc, settings) ==
  IF proc = "wasmHalftone"
  THEN [dot |-> settings.dotColor, bg |-> settings.bgColor]
  ELSE [dot |-> COLORS[StrOr(settings, "color", "BLACK")],
        bg |-> LET backgroundKey == StrOr(settings, "background", "WHITE")
               IN IF backgroundKey = "TRANSPARENT" THEN <<0, 0, 0, 0>>
                  ELSE IF backgroundKey \in DOMAIN COLORS THEN COLORS[backgroundKey]
                  ELSE COLORS["WHITE"]]

\* the stores of the halftone call in progress
StoresNow ==
  IF processor = "wasmHalftone" THEN kernelStores(fx.image, fx.settings)
  ELSE halftoneStores(fx.image, fx.settings)

InsideImage(imageData) == (0..(imageData.width - 1)) \X (0..(imageData.height - 1))

\* C22: the image HalftoneProcessor.process or wasmHalftone returns has the
\* input's width and height and 4 bytes per pixel; every store of the dot
\* rasterisation falls inside the image; a pixel stored to is the dot colour
\* and every other pixel is the background colour (transparent black for the
\* TRANSPARENT background).  The returns are looked at before the post-stage
\* runs, which leaves them as they are.
C22_HalftoneTwoColoured ==
  \A r \in Returns :
    (processor \in {"halftone", "wasmHalftone"} /\ fx.base = <<>>) =>
      LET out == r.stages[1].out
          colours == halftoneColours(processor, fx.settings)
          stores == StoresNow
      IN /\ out.width = fx.image.width /\ out.height = fx.image.height
         /\ r.size = [width |-> fx.image.width, height |-> fx.image.height]
         /\ Len(out.data) = fx.image.width * fx.image.height * 4
         /\ stores \subseteq InsideImage(fx.image)
         /\ \A xy \in InsideImage(fx.image) :
              PixelAt(out.data, Idx(out.width, xy[1], xy[2]))
                = IF xy \in stores THEN colours.dot ELSE colours.bg
         /\ (StrOr(fx.settings, "background", "WHITE") = "TRANSPARENT"
               /\ processor = "halftone") => colours.bg = <<0, 0, 0, 0>>

\* HalftoneProcessor.process has returned an image of two colours on a
\* transparent background, from dots whose boxes were clipped at the border
C22_Witness ==
  /\ processor = "halftone"
  /\ fx.js # <<>>
  /\ StrOr(fx.settings, "background", "WHITE") = "TRANSPARENT"
  /\ PixelsOf(fx.js[1].stages[1].out) = {<<0, 0, 0, 0>>, COLORS["WHITE"]}
  /\ \E xy \in Surroundings(fx.image) \ InsideImage(fx.image) :
       \E cell \in halftoneDots(fx.image, fx.settings) :
         drawDotUnclipped(fx.image.width, fx.image.height, cell.c, cell.r,
                          StrOr(fx.settings, "shape", "circle"), xy[1], xy[2])

\* the image is of one colour
Solid(imageData, rgb) ==
  \A pixel \in PixelsOf(imageData) : <<pixel[1], pixel[2], pixel[3]>> = rgb

\* halftone(spacing = 4, dotSize = 4, shape = circle) on a square image
SolidScenario ==
  /\ fx.image.width = MaxSolid /\ fx.image.height = MaxSolid
  /\ {"dotSize", "spacing"} \subseteq DOMAIN fx.settings
  /\ fx.settings.dotSize = 4 /\ fx.settings.spacing = 4
  /\ processor = "halftone" => StrOr(fx.settings, "shape", "circle") = "circle"

\* C23: in the image HalftoneProcessor.process or wasmHalftone returns, a
\* solid-white input leaves background pixels only; a solid-black square
\* input of side MaxSolid under spacing 4, dotSize 4 and circular dots has a
\* pixel of the dot colour; and a pixel of the image HalftoneProcessor returns
\* has the dot colour exactly when the dot of a cell whose radius
\* (dotSize / 2) * (1 - luminosity / 255) is at least 0.5 covers it, that
\* radius being 0 on solid white and dotSize / 2 on solid black.  The returns
\* are looked at before the post-stage runs.
C23_DotRadiusThreshold ==
  \A r \in Returns :
    (processor \in {"halftone", "wasmHalftone"} /\ fx.base = <<>>) =>
      LET out == r.stages[1].out
          colours == halftoneColours(processor, fx.settings)
          cells == halftoneCells(fx.image, fx.settings)
      IN /\ Solid(fx.image, <<255, 255, 255>>) => PixelsOf(out) = {colours.bg}
         /\ (Solid(fx.image, <<0, 0, 0>>) /\ SolidScenario) => colours.dot \in PixelsOf(out)
         /\ processor = "halftone" =>
              /\ \A cell \in cells :
                   /\ Solid(fx.image, <<255, 255, 255>>) => cell.r.n = 0
                   /\ Solid(fx.image, <<0, 0, 0>>) =>
                        2 * cell.r.n
                          = cell.r.d * Max(2, NumOr(fx.settings, "dotSize", DEFAULT_DOT_SIZE))
              /\ \A xy \in InsideImage(fx.image) :
                   (PixelAt(out.data, Idx(out.width, xy[1], xy[2])) = colours.dot)
                     <=> \E cell \in cells :
                           /\ 2 * cell.r.n >= cell.r.d
                           /\ drawDot(out.width, out.height, cell.c, cell.r,
                                      StrOr(fx.settings, "shape", "circle"), xy[1], xy[2])

\* HalftoneProcessor.process has returned, for the solid-black square under
\* spacing 4, dotSize 4 and circular dots, an image with dots on background
C23_Witness ==
  /\ processor = "halftone"
  /\ fx.js # <<>>
  /\ Solid(fx.image, <<0, 0, 0>>) /\ SolidScenario
  /\ fx.image.data[4] = 255
  /\ PixelsOf(fx.js[1].stages[1].out) = {COLORS["BLACK"], COLORS["WHITE"]}

\* ---------------------------------------------------------------------
\* The shared linear memory (SpecSelector)
\* ---------------------------------------------------------------------
\* C24: whatever calls are in flight, a call whose fast path has returned
\* copied out pixels computed from the pixels it copied in itself and, for
\* Dithering, with the palette it wrote itself.
C24_FastPathNotInterleaved ==
  \A c \in 1..Len(calls) :
    calls[c].wasm = "returned" =>
      calls[c].copied
        = [pixels |-> c, palette |-> IF calls[c].proc = "dithering" THEN c ELSE 0]

\* two calls started before the module had loaded have both returned from
\* the fast path, the first-started having run last
C24_Witness ==
  /\ Len(calls) = 2
  /\ \A c \in 1..2 : calls[c].waitsOn = "promise" /\ calls[c].wasm = "returned"
  /\ linear.pixels = 1

\* the byte ranges [from, to) of the linear memory a wrapper and its kernel
\* touch, and the bytes the wrapper asks ensureMemory for
wrapperRegions(proc, imageData, settings) ==
  LET pixelBytes ==
        IF proc = "dithering"
        THEN LET p == prepareSizes(imageData.width, imageData.height, settings)
             IN p.smallWidth * p.smallHeight * 4
        ELSE imageData.width * imageData.height * 4
  IN [pixels |-> [from |-> 0, to |-> pixelBytes],
      second |-> [from |-> pixelBytes,
                  to |-> CASE proc = "dithering" -> pixelBytes + PALETTE_ENTRIES * 4
                           [] proc = "wasmHalftone" -> pixelBytes + pixelBytes
                           [] OTHER -> pixelBytes],
      requiredBytes |-> IF proc = "wasmHalftone" THEN pixelBytes * 2 + WRAPPER_SLACK
                        ELSE requiredBytes(proc, imageData, settings)]

\* the wrappers that can be called: those of the processors and wasmHalftone
WrapperCalls ==
  { [proc |-> proc, imageData |-> img, settings |-> s] :
      proc \in Processors \cup {"wasmHalftone"}, img \in CallImages, s \in CallSettings }

\* ensureMemory of a wrapper call has returned and left `pages`: the pages
\* hold the bytes asked for and every region of the call, within the maximum
HoldsRegions(pages, call) ==
  LET regions == wrapperRegions(call.proc, call.imageData, call.settings)
  IN /\ pages <= MAXIMUM_PAGES
     /\ pages * PAGE_BYTES >= regions.requiredBytes
     /\ 0 <= regions.pixels.from /\ regions.pixels.from <= regions.pixels.to
     /\ regions.pixels.to <= regions.second.from
     /\ regions.second.from <= regions.second.to
     /\ regions.second.to <= pages * PAGE_BYTES

\* C25: once the module is available, the memory only grows and stays within
\* MAXIMUM_PAGES; whenever ensureMemory returns for a wrapper call without
\* throwing, the memory it leaves holds the bytes asked for, the pixels at
\* [0, w*h*4) and, after them and apart from them, the palette of Dithering
\* or the output of wasmHalftone; and the memory holds the regions of every
\* call whose fast path has returned.
C25_MemorySafety ==
  /\ [](isWasmAvailable =>
         /\ \A call \in WrapperCalls :
              LET regions == wrapperRegions(call.proc, call.imageData, call.settings)
                  mem == ensureMemory(wasmMemory, regions.requiredBytes)
              IN (~prepareThrows(call.proc, call.imageData, call.settings) /\ ~mem.throws) =>
                   mem.pages >= wasmMemory /\ HoldsRegions(mem.pages, call)
         /\ \A c \in 1..Len(calls) :
              calls[c].wasm = "returned" =>
                HoldsRegions(wasmMemory, [proc |-> calls[c].proc, imageData |-> calls[c].arg,
                                          settings |-> calls[c].settings]))
  /\ [][wasmMemory' >= wasmMemory /\ wasmMemory' <= MAXIMUM_PAGES]_vars

\* the fast path of a call has returned after ensureMemory grew the memory
C25_Witness ==
  /\ wasmMemory > INITIAL_PAGES
  /\ \E c \in 1..Len(calls) :
       /\ calls[c].wasm = "returned"
       /\ wrapperRegions(calls[c].proc, calls[c].arg, calls[c].settings).requiredBytes
            > INITIAL_PAGES * PAGE_BYTES

\* ---------------------------------------------------------------------
\* Nearest-colour search
\* ---------------------------------------------------------------------
\* the colour the kernel searches the palette for at pixel number i (grainSize 1)
searchedColour(image, i, brightness, contrast) ==
  LET px == PixelAt(image.data, i * 4)
      threshold == (BAYER_8X8[((i \div image.width) % 8) * 8 + ((i % image.width) % 8) + 1] - 32) * 4
  IN [c \in 1..3 |->
        clamp(adjustBrightnessContrast(px[c], brightness, contrast) + threshold, 0, 255)]

\* the entries of least squared distance over R, G and B to a colour
LeastRgbDistance(colour, palette) ==
  { i \in 1..Len(palette) :
      \A j \in 1..Len(palette) :
        rgbDistance(colour[1], colour[2], colour[3], palette[i])
          <= rgbDistance(colour[1], colour[2], colour[3], palette[j]) }

\* the lowest index among them, and the entry there
NearestRgb(colour, palette) ==
  palette[CHOOSE i \in LeastRgbDistance(colour, palette) :
            \A j \in LeastRgbDistance(colour, palette) : i <= j]

\* C26 as stated: on both paths the search answers with the palette entry
\* of least squared distance over R, G and B to the colour searched for,
\* alpha taking no part, the lowest index winning among equals, and the four
\* bytes of the pixel become the four bytes of that entry.
C26_NearestColourRgbOnly ==
  processor = "dithering" =>
    LET palette == paletteColorsOf(fx.settings)
    IN /\ (fx.wasm # <<>> /\ fx.wasm[1].stages # <<>>) =>
            LET stage == fx.wasm[1].stages[1]
                p == prepareData(fx.image, fx.settings)
            IN \A i \in 0..(stage.entering.width * stage.entering.height - 1) :
                 PixelAt(stage.entering.data, i * 4)[4] >= 10 =>
                   PixelAt(stage.leaving.data, i * 4) =
                     NearestRgb(searchedColour(stage.entering, i, p.brightness, p.contrast), palette)
       /\ (fx.js # <<>> /\ fx.js[1].stages # <<>>
             /\ StrOr(fx.settings, "filter", "ordered") = "none") =>
            LET stage == fx.js[1].stages[1]
            IN \A i \in 0..(stage.entering.width * stage.entering.height - 1) :
                 PixelAt(stage.leaving.data, i * 4) =
                   NearestRgb(PixelAt(stage.entering.data, i * 4), palette)

\* ---------------------------------------------------------------------
\* One load of the module
\* ---------------------------------------------------------------------
\* the calls that awaited wasmInitPromise and have resumed
ResumedWaiters == { c \in Started : calls[c].waitsOn = "promise" /\ Selected(c) }

\* C27: over any number of process() calls, those started while the module
\* is loading included, initWasm() is invoked at most once, a
\* WebAssembly.Memory is created only when there is none and an instance only
\* when there is none, and the calls that waited for the load all resume with
\* the same answer, which is whether the instance is there.
C27_SingleLoad ==
  /\ [](/\ initCalls <= 1
        /\ \A c \in ResumedWaiters :
             /\ calls[c].useWasm = (IF wasmInstance THEN "yes" ELSE "no")
             /\ \A d \in ResumedWaiters : calls[d].useWasm = calls[c].useWasm)
  /\ [][/\ (initPc = "arrayBuffer" /\ initPc' = "instantiate") => wasmMemory = 0
        /\ (initPc = "instantiate" /\ initPc' = "returnedTrue") => ~wasmInstance
        /\ initCalls' >= initCalls]_vars

\* two calls were started before the load had settled, one initWasm() served
\* both and both resumed on the fast path
C27_Witness ==
  /\ initCalls = 1
  /\ \E c \in ResumedWaiters, d \in ResumedWaiters :
       c # d /\ calls[c].useWasm = "yes" /\ calls[d].useWasm = "yes"

\* ---------------------------------------------------------------------
\* EffectPage.handleProcess, loadImageData and processVideo
\* ---------------------------------------------------------------------
MaxFiles == 2      \* files handed to handleProcess
MaxFrames == 2     \* frames of a video (Math.floor(duration * fps))

\* the uploaded files: what decoding gives, and for a video its frames
RunFiles ==
  { [filename |-> "a.png", type |-> "image", imageData |-> TinyImage, frames |-> 0],
    [filename |-> "b.png", type |-> "image", imageData |-> WideImage, frames |-> 0],
    [filename |-> "c.mp4", type |-> "video", imageData |-> TinyImage, frames |-> MaxFrames] }

\* the body of the for loop up to its first await, for files[i] (0-based):
\* setProgress, then processVideo(file, ...) or loadImageData(file)
startFile(r, i) ==
  [r EXCEPT !.i = i, !.frame = 0,
            !.progress = [current |-> i + 1, total |-> Len(r.files),
                          filename |-> r.files[i + 1].filename],
            !.pc = IF r.files[i + 1].type = "video" THEN "videoMetadata" ELSE "loadImage"]

\* i++ and the loop test; after the loop setResults(processedResults) and
\* setIsProcessing(false)
nextFile(r) ==
  IF r.i + 1 < Len(r.files)
  THEN startFile(r, r.i + 1)
  ELSE [r EXCEPT !.results = r.processedResults, !.isProcessing = FALSE, !.pc = "returned"]

\* the Process button: handleProcess() up to its first await
HandleProcess(files, settings) ==
  /\ run.pc = "idle"
  /\ run' = IF files = <<>>
            THEN run
            ELSE startFile([run EXCEPT !.files = files, !.settings = settings,
                                       !.step = "process", !.isProcessing = TRUE,
                                       !.results = <<>>, !.processedResults = <<>>], 0)
  /\ UNCHANGED <<loaderVars, processor, calls, batch, fx, page, linear, preview, handed>>

\* loadImageData settles: img.onload resolves with the pixels and
\* handleProcess goes on to processor.process(imageData, settings); img.onerror
\* rejects, and handleProcess, which has no try around the await, rejects too
ImageLoaded(ok) ==
  /\ run.pc = "loadImage"
  /\ IF ok
     THEN /\ calls' = Append(calls, newCall(processor, run.files[run.i + 1].imageData,
                                            run.settings, "page"))
          /\ ensureWasmLoaded
          /\ run' = [run EXCEPT !.pc = "awaitProcess", !.call = Len(calls) + 1]
     ELSE /\ run' = [run EXCEPT !.pc = "rejected"]
          /\ UNCHANGED <<calls, loaderVars>>
  /\ UNCHANGED <<processor, batch, fx, page, linear, preview, handed>>

\* `await processor.process(...)` of an image resumes: the result is pushed
\* and the loop goes on, or the rejection leaves handleProcess
ProcessResumed ==
  /\ run.pc = "awaitProcess"
  /\ calls[run.call].pc \in {"resolved", "rejected"}
  /\ run' = IF calls[run.call].pc = "rejected"
            THEN [run EXCEPT !.pc = "rejected"]
            ELSE nextFile([run EXCEPT !.processedResults =
                     Append(run.processedResults,
                            [filename |-> run.files[run.i + 1].filename, type |-> "image",
                             dataUrl |-> calls[run.call].result])])
  /\ UNCHANGED <<loaderVars, processor, calls, batch, fx, page, linear, preview, handed>>

\* processVideo: video.onerror rejects, which the try/catch of handleProcess
\* logs; video.onloadedmetadata starts the frame loop with a seek, or goes
\* to the rendering when the video has no frame
VideoMetadata(ok) ==
  /\ run.pc = "videoMetadata"
  /\ run' = IF ~ok THEN nextFile(run)
            ELSE IF run.files[run.i + 1].frames = 0 THEN [run EXCEPT !.pc = "videoRender"]
            ELSE [run EXCEPT !.pc = "videoSeek"]
  /\ UNCHANGED <<loaderVars, processor, calls, batch, fx, page, linear, preview, handed>>

\* "seeked": ctx.drawImage, ctx.getImageData and processor.process(frameData,
\* settings).  An exception here is thrown inside the async
\* onloadedmetadata handler: the promise of processVideo is neither resolved
\* nor rejected
VideoSeeked(ok) ==
  /\ run.pc = "videoSeek"
  /\ IF ok
     THEN /\ calls' = Append(calls, newCall(processor, run.files[run.i + 1].imageData,
                                            run.settings, "page"))
          /\ ensureWasmLoaded
          /\ run' = [run EXCEPT !.pc = "videoAwaitProcess", !.call = Len(calls) + 1]
     ELSE /\ run' = [run EXCEPT !.pc = "videoHandlerThrew"]
          /\ UNCHANGED <<calls, loaderVars>>
  /\ UNCHANGED <<processor, batch, fx, page, linear, preview, handed>>

\* `await processor.process(frameData, settings)` resumes: the frame is kept
\* and onFrameProgress sets the progress, or the handler throws
VideoFrameProcessed ==
  /\ run.pc = "videoAwaitProcess"
  /\ calls[run.call].pc \in {"resolved", "rejected"}
  /\ run' = IF calls[run.call].pc = "rejected"
            THEN [run EXCEPT !.pc = "videoHandlerThrew"]
            ELSE [run EXCEPT
                    !.frame = run.frame + 1,
                    !.progress = [current |-> run.i + 1, total |-> Len(run.files),
                                  filename |-> run.files[run.i + 1].filename],
                    !.pc = IF run.frame + 1 < run.files[run.i + 1].frames
                           THEN "videoSeek" ELSE "videoRender"]
  /\ UNCHANGED <<loaderVars, processor, calls, batch, fx, page, linear, preview, handed>>

\* the recorder has stopped: processVideo resolves, the .webm is pushed
VideoRendered ==
  /\ run.pc = "videoRender"
  /\ run' = nextFile([run EXCEPT !.processedResults =
                Append(run.processedResults,
                       [filename |-> run.files[run.i + 1].filename, type |-> "video",
                        dataUrl |-> [by |-> "processVideo"]])])
  /\ UNCHANGED <<loaderVars, processor, calls, batch, fx, page, linear, preview, handed>>

\* the events and continuations handleProcess waits for
RunStep ==
  \/ \E ok \in BOOLEAN : ImageLoaded(ok)
  \/ ProcessResumed
  \/ \E ok \in BOOLEAN : VideoMetadata(ok)
  \/ \E ok \in BOOLEAN : VideoSeeked(ok)
  \/ VideoFrameProcessed
  \/ VideoRendered

NextRun ==
  \/ EngineStep
  \/ \E files \in SeqsUpTo(RunFiles, MaxFiles), s \in CallSettings : HandleProcess(files, s)
  \/ RunStep

SpecRun == Init /\ [][NextRun]_vars

\* the browser delivers the load, error and seeked events and the recorder's
\* stop, and runs the continuations of settled promises
SpecRunFair == SpecRun /\ WF_vars(EngineStep) /\ WF_vars(RunStep)

\* C28 as stated: every run of handleProcess that starts with at least one
\* file eventually leaves the processing state, with isProcessing false and
\* the results collected so far published, whatever happens to each file.
C28_RunLeavesProcessing ==
  run.isProcessing ~> (~run.isProcessing /\ run.results = run.processedResults)

\* C28's failing run: the only file did not decode, handleProcess has
\* rejected and the page is left processing
RunLeftProcessing == run.pc = "rejected" /\ run.isProcessing /\ run.results = <<>>

\* ---------------------------------------------------------------------
\* LivePreview: the effect that processes the preview image
\* ---------------------------------------------------------------------
MaxPreview == 2    \* runs of the processing effect

\* the preview is mounted and its image has loaded (setOriginalImage); the
\* processing effect has not run yet
InitPreview ==
  /\ fx = IdleFx
  /\ page = IdlePage
  /\ linear = ZeroedLinear
  /\ run = IdleRun
  /\ handed = NothingHanded
  /\ wasmInitialized = FALSE
  /\ wasmInitPromise = "null"
  /\ wasmInstance = FALSE
  /\ wasmMemory = 0
  /\ initPc = "idle"
  /\ initCalls = 0
  /\ processor \in Processors
  /\ calls = <<>>
  /\ batch = IdleBatch
  /\ \E img \in CallImages : preview = [IdlePreview EXCEPT !.originalImage = img]

\* the process() invocations made by processImage
PreviewCalls == { c \in 1..Len(calls) : calls[c].owner = "preview" }

\* the effect runs after the render in which one of its dependencies changed:
\* with showOriginal it shows the original, otherwise processImage() runs up
\* to `await processor.process(clonedData, settings)`.  It has no cleanup.
PreviewEffect(settings, showOriginal) ==
  /\ preview.effects < MaxPreview
  /\ \/ preview.effects = 0
     \/ settings # preview.settings
     \/ showOriginal # preview.showOriginal
  /\ IF showOriginal
     THEN /\ preview' = [preview EXCEPT !.settings = settings, !.showOriginal = TRUE,
                                        !.effects = preview.effects + 1,
                                        !.processedDataUrl = [by |-> "original"]]
          /\ UNCHANGED <<calls, loaderVars>>
     ELSE /\ preview' = [preview EXCEPT !.settings = settings, !.showOriginal = FALSE,
                                        !.effects = preview.effects + 1,
                                        !.isProcessing = TRUE]
          /\ calls' = Append(calls, newCall(processor, preview.originalImage, settings, "preview"))
          /\ ensureWasmLoaded
  /\ UNCHANGED <<processor, batch, fx, page, linear, run, handed>>

\* processImage() resumes after its await: setProcessedDataUrl with the
\* result, or the catch, and setIsProcessing(false) in the finally
PreviewResume(c) ==
  /\ c \in PreviewCalls \ preview.resumed
  /\ calls[c].pc \in {"resolved", "rejected"}
  /\ preview' = [preview EXCEPT
                   !.processedDataUrl = IF calls[c].pc = "resolved" THEN calls[c].result ELSE @,
                   !.isProcessing = FALSE,
                   !.resumed = @ \cup {c}]
  /\ UNCHANGED <<loaderVars, processor, calls, batch, fx, page, linear, run, handed>>

\* the continuations waiting in the microtask queue
ContinuationDue == { c \in PreviewCalls \ preview.resumed : calls[c].pc \in {"resolved", "rejected"} }
ThenDue == initPc \in {"returnedTrue", "returnedFalse"}
SelectDue == { c \in 1..Len(calls) : calls[c].pc = "awaitLoad" /\ loadSettled(calls[c]) }
JsDue == { c \in 1..Len(calls) : calls[c].pc = "awaitJs" }
MicrotaskDue == ContinuationDue # {} \/ ThenDue \/ SelectDue # {} \/ JsDue # {}

Lowest(S) == CHOOSE c \in S : \A d \in S : c <= d

\* The event loop: the microtask queue is emptied, first in first out, before
\* the next task.  A continuation of processImage is queued by the step that
\* settles its process(); the continuations of calls awaiting the same load
\* run in the order the calls were made; `await this.processJs(...)` resumes
\* after the continuations already queued.  The tasks are the network events
\* of initWasm and the renders that run the effect.
NextPreview ==
  \/ ContinuationDue # {} /\ PreviewResume(Lowest(ContinuationDue))
  \/ ContinuationDue = {} /\ ThenDue /\ InitThen
  \/ /\ ContinuationDue = {} /\ ~ThenDue /\ SelectDue # {}
     /\ \E trap \in BOOLEAN, oom \in BOOLEAN : ProcessSelect(Lowest(SelectDue), trap, oom)
  \/ /\ ContinuationDue = {} /\ ~ThenDue /\ SelectDue = {} /\ JsDue # {}
     /\ ProcessJsSettled(Lowest(JsDue))
  \/ ~MicrotaskDue /\ \E ok \in BOOLEAN : InitFetch(ok)
  \/ ~MicrotaskDue /\ \E ok \in BOOLEAN : InitArrayBuffer(ok)
  \/ ~MicrotaskDue /\ \E ok \in BOOLEAN : InitInstantiate(ok)
  \/ ~MicrotaskDue /\ \E s \in CallSettings, so \in BOOLEAN : PreviewEffect(s, so)

SpecPreview == InitPreview /\ [][NextPreview]_vars

\* the computations still in flight, and the last one started
InFlight == PreviewCalls \ preview.resumed
LatestRun == CHOOSE c \in PreviewCalls : \A d \in PreviewCalls : d <= c

\* C29 as stated: once every computation has completed, the preview shown is
\* the one computed from the settings the preview has now (when that
\* computation produced a result), and between tasks isProcessing is true
\* while a computation is in flight.
C29_LatestSettingsShown ==
  /\ (PreviewCalls # {} /\ InFlight = {} /\ ~preview.showOriginal
        /\ calls[LatestRun].pc = "resolved") =>
       preview.processedDataUrl = calls[LatestRun].result
  /\ (InFlight # {} /\ ~MicrotaskDue) => preview.isProcessing

\* the panorama previewed with Dithering: the settings went from grain 1 to
\* the defaults during the load, the first computation fell back to processJs
\* and its result is the one shown
StalePreviewShown ==
  /\ Cardinality(PreviewCalls) = 2 /\ InFlight = {}
  /\ calls[1].settings = [inputResolution |-> 800, grainSize |-> 1]
  /\ preview.settings = [unknown |-> 1] /\ ~preview.showOriginal
  /\ calls[2].wasm = "returned"
  /\ preview.processedDataUrl = calls[1].result
  /\ preview.processedDataUrl.by = "processJs"

\* ---------------------------------------------------------------------
\* The parameters handed to the algorithms
\* ---------------------------------------------------------------------
\* A JavaScript number that is an integer: units + wraps * 2^32, with units
\* an int32 and wraps >= 0 (units >= 0 where wraps > 0)
Num(units, wraps) == [units |-> units, wraps |-> wraps]

\* `(settings[k] as number) || dflt`
NumberOr(settings, k, dflt) ==
  IF k \in DOMAIN settings /\ settings[k] # Num(0, 0) THEN settings[k] ELSE Num(dflt, 0)

\* Math.max(lo, x) and Math.min(hi, x) for an int32 lo, hi
MathMax(lo, x) == IF x.wraps > 0 THEN x ELSE Num(Max(lo, x.units), 0)
MathMin(hi, x) == IF x.wraps > 0 THEN Num(hi, 0) ELSE Num(Min(hi, x.units), 0)

\* the conversion of a number to the i32 parameter of an exported function:
\* the value modulo 2^32, as a signed integer
ToInt32(x) == Num(x.units, 0)

\* the values a numeric setting is given: zero, negative, below and within
\* the declared range, above it, 2^32 and 2^32 + 1
SettingNumbers ==
  { Num(0, 0), Num(-5, 0), Num(1, 0), Num(2, 0), Num(3, 0), Num(300, 0), Num(0, 1), Num(1, 1) }

\* the maps that give each of the keys a number or leave it out
NumberMaps(keys) ==
  UNION { [ks -> SettingNumbers] : ks \in SUBSET keys }

\* an opaque white image
WhiteImage(width, height) == ImageData([i \in 1..(width * height * 4) |-> 255], width, height)

\* the pixel counts the pixelateWithColors kernel divides its totals by, up
\* to the first division that traps
kernelBlockCounts(width, height, blockSize) ==
  IF blockSize <= 0
  THEN { Max(0, Min(blockSize, width)) * Max(0, Min(blockSize, height)) }
  ELSE { Cardinality(blockOffsets(width, height, bx, by, blockSize)) :
           bx \in { x \in 0..(width - 1) : x % blockSize = 0 },
           by \in { y \in 0..(height - 1) : y % blockSize = 0 } }

\* the pixel counts PixelateProcessor.processJs divides by: a block as large as
\* 2^32 holds the whole image
managedBlockCounts(width, height, blockSize) ==
  IF blockSize.wraps > 0 THEN { width * height }
  ELSE LET bs == blockSize.units
           smallWidth == Max(1, width \div bs)
           smallHeight == Max(1, height \div bs)
       IN { Cardinality({ b \in 0..(bs - 1) : sx * bs + b < width })
              * Cardinality({ b \in 0..(bs - 1) : sy * bs + b < height }) :
              sx \in 0..(smallWidth - 1), sy \in 0..(smallHeight - 1) }

\* PixelateProcessor.processWasm: the parameters resolved, then converted
\* at the call of the exported pixelateWithColors
HandPixelateWasm(width, height, settings) ==
  /\ handed.proc = "none"
  /\ LET blockSize == ToInt32(MathMax(2, NumberOr(settings, "blockSize", DEFAULT_BLOCK_SIZE)))
         colorLevels == ToInt32(MathMax(2, MathMin(256,
                            NumberOr(settings, "colorLevels", DEFAULT_COLOR_LEVELS))))
     IN handed' = [proc |-> "pixelate", by |-> "processWasm", settings |-> settings,
                   width |-> width, height |-> height,
                   stride |-> blockSize, colorLevels |-> colorLevels.units,
                   counts |-> kernelBlockCounts(width, height, blockSize.units)]
  /\ UNCHANGED <<loaderVars, processor, calls, batch, fx, page, linear, run, preview>>

\* PixelateProcessor.processJs
HandPixelateJs(width, height, settings) ==
  /\ handed.proc = "none"
  /\ LET blockSize == MathMax(2, NumberOr(settings, "blockSize", DEFAULT_BLOCK_SIZE))
         colorLevels == MathMax(2, MathMin(256,
                            NumberOr(settings, "colorLevels", DEFAULT_COLOR_LEVELS)))
     IN handed' = [proc |-> "pixelate", by |-> "processJs", settings |-> settings,
                   width |-> width, height |-> height,
                   stride |-> blockSize, colorLevels |-> colorLevels.units,
                   counts |-> managedBlockCounts(width, height, blockSize)]
  /\ UNCHANGED <<loaderVars, processor, calls, batch, fx, page, linear, run, preview>>

\* HalftoneProcessor.process on a white image: spacing, and the pixel count
\* of every sampleBrightness call
HandHalftone(width, height, settings) ==
  /\ handed.proc = "none"
  /\ LET spacing == Max(3, NumOr(settings, "spacing", DEFAULT_SPACING))
         rot == rotation(DEFAULT_ANGLE)
         indices == gridIndices2(gridSize(width, height, spacing))
         centres == { c \in { cellCentre(width, height, spacing, rot, gx2, gy2) :
                                gx2 \in indices, gy2 \in indices } :
                        ~outsideImage(width, height, c) }
     IN handed' = [proc |-> "halftone", by |-> "process", settings |-> settings,
                   width |-> width, height |-> height,
                   stride |-> Num(spacing, 0),
                   counts |-> { sampleBrightness(WhiteImage(width, height).data,
                                                 width, height, c, spacing).count : c \in centres }]
  /\ UNCHANGED <<loaderVars, processor, calls, batch, fx, page, linear, run, preview>>

\* DitheringProcessor.processWasm: what wasmOrderedDither is called with
HandDither(width, height, settings) ==
  /\ handed.proc = "none"
  /\ handed' = [proc |-> "dithering", by |-> "processWasm", settings |-> settings,
                width |-> width, height |-> height,
                grainSize |-> 1, paletteSize |-> Len(paletteColorsOf(settings))]
  /\ UNCHANGED <<loaderVars, processor, calls, batch, fx, page, linear, run, preview>>

\* the settings of Halftone and Dithering, as plain numbers
HalftoneNumbers ==
  UNION { [ks -> {0, -4, 1, 2, 3, 4}] : ks \in SUBSET {"dotSize", "spacing"} }

DitherNumbers ==
  { [grainSize |-> g] : g \in {0, -1, 2, 8} } \cup
  { [unknown |-> 1], [palette |-> "WHITE-ON-TRANSPARENT"], [palette |-> "NO-SUCH-PALETTE"] }

NextHanded ==
  \E width \in 1..MaxWide, height \in 1..MaxWide :
    \/ \E s \in NumberMaps({"blockSize", "colorLevels"}) : HandPixelateWasm(width, height, s)
    \/ \E s \in NumberMaps({"blockSize", "colorLevels"}) : HandPixelateJs(width, height, s)
    \/ \E s \in HalftoneNumbers : HandHalftone(width, height, s)
    \/ \E s \in DitherNumbers : HandDither(width, height, s)

SpecHanded == Init /\ [][NextHanded]_vars

\* is the number at least lo
AtLeast(x, lo) == x.wraps > 0 \/ x.units >= lo

\* C30 as stated: whatever finite numbers the settings hold (zero, negative,
\* missing, large) and whatever the size of the image, Pixelate is handed a
\* stride of at least 2 and colorLevels within 2..256, Halftone a spacing of at
\* least 3, every average divides by a count of at least 1, and the dither
\* kernel is called with grainSize 1 and a palette that is not empty.
C30_NoDivisionByZero ==
  /\ handed.proc = "pixelate" =>
       /\ AtLeast(handed.stride, 2)
       /\ handed.colorLevels \in 2..256
       /\ \A n \in handed.counts : n >= 1
  /\ handed.proc = "halftone" =>
       /\ AtLeast(handed.stride, 3)
       /\ \A n \in handed.counts : n >= 1
  /\ handed.proc = "dithering" =>
       handed.grainSize = 1 /\ handed.paletteSize >= 1
====
